---- MODULE Spec2Model ----
(***************************************************************************)
(* Model of the resumable fabrication runners of compas_rcf:               *)
(*   - main      (src/src/compas_rcf/abb/run.py), the single-unit loop     *)
(*   - abb_run   (src/src/compas_rcf/abb_runner.py), the chunked loop      *)
(* Both load a ledger of clay bullets, curate a work list with             *)
(* setup_fab_data, send pick/place programs that return futures, stamp the *)
(* bullets and write progress files.                                       *)
(*                                                                         *)
(* And of the UR script generation of rcf.ur:                              *)
(*   - clay_shooting and its move generators (src/rcf/ur/clay_shooting.py) *)
(*   - concatenate_script (src/rcf/ur/comm.py)                             *)
(* A script is the sequence of its commands; a text is the sequence of its *)
(* characters.  Spec runs the two runners, CallSpec applies one generator  *)
(* to inputs drawn from bounded sets, ShootingSpec runs clay_shooting.     *)
(*                                                                         *)
(* And of the channels of comm.py: send_script, listen_to_robot with read  *)
(* and get_messages, get_ip_ur.  ChannelSpec runs calls of send_script and *)
(* listen_to_robot one after the other.                                    *)
(*                                                                         *)
(* Conventions.  A bullet is a record [bullet_id, placed, cycle_time].     *)
(* Python's None is the value None below.  Bullets are objects: the work   *)
(* list to_place holds references, modelled as 1-based positions in        *)
(* clay_bullets.  Loop counters keep the 0-based values of the code.       *)
(***************************************************************************)
EXTENDS Integers, Sequences, FiniteSets, TLC

VARIABLES
    runner,             \* "main" | "abb_run": which entry point runs
    pc,                 \* position of the control thread
    clay_bullets,       \* the ledger (load_bullets result), mutated in place
    answers,            \* what the user answered to setup_fab_data's questions (until the run starts)
    to_place,           \* work list: positions into clay_bullets
    i,                  \* loop counter of the fabrication loop (0-based)
    skip_progress_file, \* fab_conf["skip_progress_file"] (main only)
    pending,            \* futures issued and not yet awaited, in issue order
    pick_result,        \* main: pick_future.result(), None before
    place_result,       \* main: place_future.result(), None before
    pick_cycle,         \* abb_run: keys of pick_cycle
    place_cycle,        \* abb_run: keys of place_cycle
    times,              \* abb_run: the list times
    now,                \* the wall clock read by time.time()
    in_progress_json,   \* content of the in-progress file
    done_json,          \* content of the file under 00_done
    last_good,          \* content of the in-progress file after the last successful write
    history,            \* log of sends, awaits, field assignments and file writes
    call_pc,            \* position inside the script generation ("idle" while a runner runs)
    args,               \* the arguments of the call
    result,             \* what the call returned
    picking_planes,     \* clay_shooting: the caller's picking frames (objects, moved in place)
    placing_planes,     \* clay_shooting: the caller's placing frames (objects, moved in place)
    instructions,       \* clay_shooting: the list instructions
    script,             \* clay_shooting: the commands generated so far
    unit,               \* clay_shooting: loop counter of the fabrication loop (0-based)
    sockets,            \* comm.py: the sockets created so far, each with what was done on it
    stdout              \* comm.py: the lines printed so far

runvars == << runner, pc, clay_bullets, answers, to_place, i, skip_progress_file,
           pending, pick_result, place_result, pick_cycle, place_cycle, times,
           now, in_progress_json, done_json, last_good, history >>

genvars == << call_pc, args, result, picking_planes, placing_planes, instructions,
              script, unit, sockets, stdout >>

vars == << runvars, genvars >>

----
\* Bounds of the model.

\* Longest ledger handed to main.
MaxUnitsMain == 2

\* Longest ledger handed to abb_run (two full chunks need six bullets).
MaxUnitsChunked == 6

\* Longest ledger that carries bullets placed by earlier runs; a longer one
\* is loaded with no bullet placed.
MaxResumed == 5

\* The clock stops advancing here (later reads of time.time() tie).
MaxTime == 6

----
\* Values.

\* Python's None for placed and cycle_time.
None == -1

\* The temporary value main gives to placed before the futures resolve.
TempPlaced == 1

\* The latest timestamp written by an earlier run, found in a loaded ledger;
\* the one before it is OldTime - 1, and both differ from TempPlaced.
OldTime == 3

\* A cycle time written by an earlier run, found in a loaded ledger.
OldCycle == 2

\* First value of the clock in this run.
StartTime == 4

\* Size of a chunk in abb_run.
ChunkSize == 3

\* Durations a pick or place future of main can return.
Durations == {1, 2}

\* Keys of the futures returned by triple_pick, in insertion order.
PickKeys == << "travel", "pick0", "pick1", "pick2" >>

\* Keys of the futures returned by place_bullet_triple for a full chunk.
PlaceKeys == << "trajectory_to", "place0", "place1", "place2", "trajectory_from" >>

Min(a, b) == IF a < b THEN a ELSE b

Range(s) == { s[k] : k \in 1..Len(s) }

\* The ascending sequence of the elements of a finite set of integers.
RECURSIVE SortedSeq(_)
SortedSeq(S) ==
    IF S = {} THEN << >>
    ELSE LET m == CHOOSE x \in S : \A y \in S : x <= y
         IN  << m >> \o SortedSeq(S \ {m})

\* Python's lst[start:] for a 0-based start >= 0.
SliceFrom(lst, start) == SubSeq(lst, start + 1, Len(lst))

----
\* setup_fab_data (identical in run.py and abb_runner.py).

\* Positions of the bullets whose placed is not None, in ledger order.
maybe_placed(bullets) == { k \in 1..Len(bullets) : bullets[k].placed # None }

\* max(maybe_placed, key=attrgetter("bullet_id")): the first bullet of
\* maybe_placed that has the greatest bullet_id.
last_placed(bullets) ==
    LET mp == maybe_placed(bullets)
        top == { k \in mp : \A j \in mp : bullets[j].bullet_id <= bullets[k].bullet_id }
    IN  CHOOSE k \in top : \A j \in top : k <= j

\* clay_bullets.index(last_placed), 0-based.
last_placed_index(bullets) == last_placed(bullets) - 1

\* No question is asked when no bullet is placed.
\* Greatest number of entries ticked in the checkbox of setup_fab_data.
MaxPicked == 2

NotAsked == [option |-> "not asked", method |-> "-", n |-> 0, selection |-> {}]

\* The answers the user can give to the questions of setup_fab_data.  The
\* text prompt only accepts n with -1 < n < last_placed_index; the checkbox
\* returns the selected entries in the order they are listed.
Policies(bullets) ==
    IF maybe_placed(bullets) = {}
    THEN { NotAsked }
    ELSE { [option |-> "skip", method |-> "-", n |-> 0, selection |-> {}],
           [option |-> "all", method |-> "-", n |-> 0, selection |-> {}] }
         \cup { [option |-> "some", method |-> "last n", n |-> n, selection |-> {}] :
                  n \in 0..(last_placed_index(bullets) - 1) }
         \cup { [option |-> "some", method |-> "pick", n |-> 0, selection |-> S] :
                  S \in { T \in SUBSET (1..Len(bullets)) : Cardinality(T) <= MaxPicked } }

\* Mutant of SkipPlaced: everything after the last placed bullet.
SkipPlaced_AfterLast(bullets) ==
    SliceFrom([k \in 1..Len(bullets) |-> k], last_placed_index(bullets) + 1)

\* "Skip all bullet marked as placed in JSON file."
SkipPlaced(bullets) ==
    SortedSeq({ k \in 1..Len(bullets) : k \notin maybe_placed(bullets) })

\* "Place last N bullets again.": clay_bullets[last_placed_index - n + 1:]
PlaceLastN(bullets, n) ==
    SliceFrom([k \in 1..Len(bullets) |-> k], last_placed_index(bullets) - n + 1)

\* The value setup_fab_data returns, as positions into clay_bullets; raised
\* is TRUE when the function leaves with an exception instead (to_place[0]
\* of an empty slice in the log call of the "last n" branch).
setup_fab_data(bullets, policy) ==
    IF maybe_placed(bullets) = {}
    THEN [raised |-> FALSE, to_place |-> [k \in 1..Len(bullets) |-> k]]
    ELSE CASE policy.option = "skip" ->
                [raised |-> FALSE, to_place |-> SkipPlaced(bullets)]
           [] policy.option = "all" ->
                [raised |-> FALSE, to_place |-> [k \in 1..Len(bullets) |-> k]]
           [] policy.option = "some" /\ policy.method = "last n" ->
                LET tp == PlaceLastN(bullets, policy.n)
                IN  [raised |-> tp = << >>, to_place |-> tp]
           [] OTHER ->
                [raised |-> FALSE, to_place |-> SortedSeq(policy.selection)]

\* chunks(lst, n) as a list: lst[0:n], lst[n:2n], ...
chunks(lst, n) ==
    [c \in 1..((Len(lst) + n - 1) \div n) |->
        SubSeq(lst, (c - 1) * n + 1, Min(c * n, Len(lst)))]

----
\* Files.

\* A file that does not exist.
Absent == [state |-> "absent", bullets |-> << >>, times |-> << >>]

\* A file opened with mode "w" whose json.dump did not complete.
Truncated == [state |-> "truncated", bullets |-> << >>, times |-> << >>]

\* What ClayBulletEncoder writes for one bullet.
ClayBulletEncoder(bullet) ==
    [bullet_id |-> bullet.bullet_id, placed |-> bullet.placed,
     cycle_time |-> bullet.cycle_time]

\* json.dump(clay_bullets, fp, cls=ClayBulletEncoder) into a file.
DumpBullets(bullets) ==
    [state |-> "bullets",
     bullets |-> [k \in 1..Len(bullets) |-> ClayBulletEncoder(bullets[k])],
     times |-> << >>]

\* json.dump(times, fp) into a file.
DumpTimes(t) == [state |-> "times", bullets |-> << >>, times |-> t]

\* load_bullets(path): the ledger a later run gets from a file; a file that
\* does not hold a list of bullets yields no ledger (ok = FALSE).
load_bullets(file) ==
    IF file.state = "bullets"
    THEN [ok |-> TRUE,
          bullets |-> [k \in 1..Len(file.bullets) |->
                         [bullet_id |-> file.bullets[k].bullet_id,
                          placed |-> file.bullets[k].placed,
                          cycle_time |-> file.bullets[k].cycle_time]]]
    ELSE [ok |-> FALSE, bullets |-> << >>]

\* Outcomes of `with path.open(mode="w") as fp: json.dump(...)`: the write
\* completes, open() raises and the file is untouched, or json.dump raises
\* after open() has truncated the file.
WriteOutcomes == { "ok", "open failed", "dump failed" }

FileAfterWrite(old, new, outcome) ==
    CASE outcome = "ok" -> new
      [] outcome = "open failed" -> old
      [] OTHER -> Truncated

\* time.time(): the clock never goes back; reads may tie.
Tick(t) == Min(t + 1, MaxTime)

\* One entry of history.
Event(ev, op, idx, pos, val) ==
    [ev |-> ev, op |-> op, idx |-> idx, pos |-> pos, val |-> val]

----
\* State after load_bullets and the client set-up, before setup_fab_data.

\* The orders in which a ledger of n bullets can carry the ids 1..n.
IdOrders(n) == { [k \in 1..n |-> k], [k \in 1..n |-> n + 1 - k] }

\* What earlier runs left in a loaded ledger.  The stamps of the placed
\* bullets, read in ledger order, are all the same ("level"), go up after the
\* first ("rising") or go down after the first ("falling": an earlier run
\* placed a subset out of ledger order); cycle_time is set with placed when
\* main wrote the ledger and is None when abb_run did.
EarlierRuns == [order : { "level", "rising", "falling" }, cycles : BOOLEAN]

\* A ledger as load_bullets returns it: the bullets at the positions in P
\* were stamped by earlier runs.
LoadedLedger(ids, P, earlier) ==
    LET first == CHOOSE k \in P : \A q \in P : k <= q
        stamp(k) == CASE earlier.order = "level" -> OldTime
                      [] earlier.order = "rising" ->
                            IF k = first THEN OldTime - 1 ELSE OldTime
                      [] OTHER -> IF k = first THEN OldTime ELSE OldTime - 1
    IN  [k \in 1..Len(ids) |->
            [bullet_id |-> ids[k],
             placed |-> IF k \in P THEN stamp(k) ELSE None,
             cycle_time |-> IF k \in P /\ earlier.cycles THEN OldCycle ELSE None]]

\* The ledgers of n bullets load_bullets can return.
LoadedLedgers(n) ==
    { LoadedLedger(ids, P, earlier) :
        ids \in IdOrders(n),
        P \in (IF n <= MaxResumed THEN SUBSET (1..n) ELSE { {} }),
        earlier \in EarlierRuns }

MaxUnits(r) == IF r = "main" THEN MaxUnitsMain ELSE MaxUnitsChunked

\* No script generation is under way.
GenIdle ==
    /\ call_pc = "idle"
    /\ args = << >>
    /\ result = << >>
    /\ picking_planes = << >>
    /\ placing_planes = << >>
    /\ instructions = << >>
    /\ script = << >>
    /\ unit = 0
    /\ sockets = << >>
    /\ stdout = << >>

Init ==
    /\ runner \in { "main", "abb_run" }
    /\ \E n \in 1..MaxUnits(runner) : clay_bullets \in LoadedLedgers(n)
    /\ skip_progress_file \in (IF runner = "main" THEN BOOLEAN ELSE { FALSE })
    \* the file that was opened is the in-progress file itself, or it is a
    \* fresh file and no in-progress file exists yet
    /\ in_progress_json \in { DumpBullets(clay_bullets), Absent }
    /\ last_good = in_progress_json
    /\ done_json = Absent
    /\ pc = "setup"
    /\ answers = NotAsked
    /\ to_place = << >>
    /\ i = 0
    /\ pending = << >>
    /\ pick_result = None
    /\ place_result = None
    /\ pick_cycle = << >>
    /\ place_cycle = << >>
    /\ times = << >>
    /\ now = StartTime
    /\ history = << >>
    /\ GenIdle

----
\* Steps shared by main and abb_run.

\* run.py:199 / abb_runner.py:416: to_place = setup_fab_data(clay_bullets)
SetupFabData ==
    /\ pc = "setup"
    /\ \E policy \in Policies(clay_bullets) :
         LET r == setup_fab_data(clay_bullets, policy)
         IN  /\ answers' = policy
             /\ to_place' = r.to_place
             /\ pc' = IF r.raised THEN "raised" ELSE "confirm"
    /\ UNCHANGED << runner, clay_bullets, i, skip_progress_file, pending,
                    pick_result, place_result, pick_cycle, place_cycle, times,
                    now, in_progress_json, done_json, last_good, history >>
    /\ UNCHANGED genvars

\* The assignments of the loop `for bullet in to_place: bullet.placed = None;
\* bullet.cycle_time = None`, in order.
ResetEvents(tp) ==
    [k \in 1..(2 * Len(tp)) |->
        IF k % 2 = 1
        THEN Event("assign", "placed", 0, tp[(k + 1) \div 2], None)
        ELSE Event("assign", "cycle_time", 0, tp[k \div 2], None)]

\* pre_procedure(abb), called before that loop: the commands that set speed,
\* acceleration, tool and work object and move the robot to the start
\* position, as one entry of history.
pre_procedure == << Event("procedure", "pre_procedure", 0, 0, None) >>

\* Mutant of ResetBullets: the whole ledger is reset, not the work list.
ResetBullets_All(bullets, tp) ==
    [k \in 1..Len(bullets) |->
        [bullets[k] EXCEPT !.placed = None, !.cycle_time = None]]

\* The ledger after that loop.
ResetBullets(bullets, tp) ==
    [k \in 1..Len(bullets) |->
        IF k \in Range(tp)
        THEN [bullets[k] EXCEPT !.placed = None, !.cycle_time = None]
        ELSE bullets[k]]

\* Where the single-unit loop goes with counter j.
MainLoopPc(j, tp) == IF j < Len(tp) THEN "pick" ELSE "final write"

\* Where the chunked loop goes with counter j: the body, or the shutdown
\* procedure when the chunks are exhausted or the chunk is not a full one.
ChunkLoopPc(j, tp) ==
    LET chunks_to_place == chunks(tp, ChunkSize)
    IN  IF j < Len(chunks_to_place) /\ Len(chunks_to_place[j + 1]) = ChunkSize
        THEN "triple pick"
        ELSE "shutdown"

LoopPc(r, j, tp) == IF r = "main" THEN MainLoopPc(j, tp) ELSE ChunkLoopPc(j, tp)

\* run.py:201-211 / abb_runner.py:418-428: the user confirms, pre_procedure
\* runs, and placed and cycle_time of the work list are reset; or the user
\* declines and the program exits (sys.exit() drops the work list).
ConfirmAndReset ==
    /\ pc = "confirm"
    /\ \E ready \in BOOLEAN :
         IF ready
         THEN /\ clay_bullets' = ResetBullets(clay_bullets, to_place)
              /\ history' = history \o pre_procedure \o ResetEvents(to_place)
              /\ pc' = LoopPc(runner, 0, to_place)
              /\ UNCHANGED to_place
         ELSE /\ pc' = "exited"
              /\ to_place' = << >>
              /\ UNCHANGED << clay_bullets, history >>
    /\ answers' = NotAsked
    /\ UNCHANGED << runner, i, skip_progress_file, pending,
                    pick_result, place_result, pick_cycle, place_cycle, times,
                    now, in_progress_json, done_json, last_good >>
    /\ UNCHANGED genvars

----
\* The fabrication loop of main (run.py:213-243).

\* The bullet of the current iteration, as a position in clay_bullets.
bullet == to_place[i + 1]

\* run.py:214-224: pick_future = pick_bullet(abb, pick_frame)
PickBullet ==
    /\ runner = "main" /\ pc = "pick"
    /\ pending' = Append(pending, "pick")
    /\ history' = Append(history, Event("send", "pick", i, bullet, None))
    /\ pc' = "place"
    /\ UNCHANGED << runner, clay_bullets, answers, to_place, i, skip_progress_file,
                    pick_result, place_result, pick_cycle, place_cycle, times,
                    now, in_progress_json, done_json, last_good >>
    /\ UNCHANGED genvars

\* run.py:227: place_future = place_bullet(abb, bullet)
PlaceBullet ==
    /\ runner = "main" /\ pc = "place"
    /\ pending' = Append(pending, "place")
    /\ history' = Append(history, Event("send", "place", i, bullet, None))
    /\ pc' = "mark"
    /\ UNCHANGED << runner, clay_bullets, answers, to_place, i, skip_progress_file,
                    pick_result, place_result, pick_cycle, place_cycle, times,
                    now, in_progress_json, done_json, last_good >>
    /\ UNCHANGED genvars

\* Mutant of MarkPlaced: the bullet is stamped with the clock already here.
MarkPlaced_Stamping ==
    /\ runner = "main" /\ pc = "mark"
    /\ clay_bullets' = [clay_bullets EXCEPT ![bullet].placed = now]
    /\ history' = Append(history, Event("assign", "placed", i, bullet, now))
    /\ pc' = "write"
    /\ UNCHANGED << runner, answers, to_place, i, skip_progress_file, pending,
                    pick_result, place_result, pick_cycle, place_cycle, times,
                    now, in_progress_json, done_json, last_good >>
    /\ UNCHANGED genvars

\* run.py:229: bullet.placed = 1
MarkPlaced ==
    /\ runner = "main" /\ pc = "mark"
    /\ clay_bullets' = [clay_bullets EXCEPT ![bullet].placed = TempPlaced]
    /\ history' = Append(history, Event("assign", "placed", i, bullet, TempPlaced))
    /\ pc' = "write"
    /\ UNCHANGED << runner, answers, to_place, i, skip_progress_file, pending,
                    pick_result, place_result, pick_cycle, place_cycle, times,
                    now, in_progress_json, done_json, last_good >>
    /\ UNCHANGED genvars

\* The effect of one `with in_progress_json.open(mode="w")` block that dumps
\* content: the file, the record of the last good content, the log, and the
\* position reached (next on success; an exception ends the run).
WriteFile(content, outcome, next) ==
    /\ in_progress_json' = FileAfterWrite(in_progress_json, content, outcome)
    /\ last_good' = IF outcome = "ok" THEN content ELSE last_good
    /\ history' = Append(history, Event("write", outcome, i, 0, None))
    /\ pc' = IF outcome = "ok" THEN next ELSE "raised"

\* run.py:231-235: write progress to json while waiting for robot
WriteProgress ==
    /\ runner = "main" /\ pc = "write"
    /\ IF skip_progress_file
       THEN /\ pc' = "await pick"
            /\ UNCHANGED << in_progress_json, last_good, history >>
       ELSE \E outcome \in WriteOutcomes :
              WriteFile(DumpBullets(clay_bullets), outcome, "await pick")
    /\ UNCHANGED << runner, clay_bullets, answers, to_place, i, skip_progress_file,
                    pending, pick_result, place_result, pick_cycle, place_cycle,
                    times, now, done_json >>
    /\ UNCHANGED genvars

\* run.py:238, left operand: pick_future.result()
AwaitPick ==
    /\ runner = "main" /\ pc = "await pick"
    /\ \E d \in Durations :
          /\ pick_result' = d
          /\ history' = Append(history, Event("await", Head(pending), i, bullet, d))
    /\ pending' = Tail(pending)
    /\ pc' = "await place"
    /\ UNCHANGED << runner, clay_bullets, answers, to_place, i, skip_progress_file,
                    place_result, pick_cycle, place_cycle, times, now,
                    in_progress_json, done_json, last_good >>
    /\ UNCHANGED genvars

\* run.py:238, right operand: place_future.result()
AwaitPlace ==
    /\ runner = "main" /\ pc = "await place"
    /\ \E d \in Durations :
          /\ place_result' = d
          /\ history' = Append(history, Event("await", Head(pending), i, bullet, d))
    /\ pending' = Tail(pending)
    /\ pc' = "stamp"
    /\ UNCHANGED << runner, clay_bullets, answers, to_place, i, skip_progress_file,
                    pick_result, pick_cycle, place_cycle, times, now,
                    in_progress_json, done_json, last_good >>
    /\ UNCHANGED genvars

\* run.py:238: cycle_time = pick_future.result() + place_future.result()
CycleTime(pick, place) == pick + place

\* run.py:238-243: bullet.cycle_time = cycle_time; bullet.placed = time.time();
\* then the next iteration, or the shutdown procedure.
StampBullet ==
    /\ runner = "main" /\ pc = "stamp"
    /\ LET cycle_time == CycleTime(pick_result, place_result)
       IN  /\ clay_bullets' = [clay_bullets EXCEPT ![bullet].cycle_time = cycle_time,
                                                   ![bullet].placed = now]
           /\ history' = history \o
                << Event("assign", "cycle_time", i, bullet, cycle_time),
                   Event("assign", "placed", i, bullet, now) >>
    /\ now' = Tick(now)
    /\ pick_result' = None
    /\ place_result' = None
    /\ i' = i + 1
    /\ pc' = MainLoopPc(i + 1, to_place)
    /\ UNCHANGED << runner, answers, to_place, skip_progress_file, pending, pick_cycle,
                    place_cycle, times, in_progress_json, done_json, last_good >>
    /\ UNCHANGED genvars

\* run.py:249-253: write progress of last run of loop
FinalWrite ==
    /\ runner = "main" /\ pc = "final write"
    /\ IF skip_progress_file
       THEN /\ pc' = "shutdown"
            /\ UNCHANGED << in_progress_json, last_good, history >>
       ELSE \E outcome \in WriteOutcomes :
              WriteFile(DumpBullets(clay_bullets), outcome, "shutdown")
    /\ UNCHANGED << runner, clay_bullets, answers, to_place, i, skip_progress_file,
                    pending, pick_result, place_result, pick_cycle, place_cycle,
                    times, now, done_json >>
    /\ UNCHANGED genvars

\* len([bullet for bullet in clay_bullets if bullet.placed is None]) == 0
AllPlaced(bullets) == \A k \in 1..Len(bullets) : bullets[k].placed # None

\* post_procedure(abb), the last call of a run that was not ended by an
\* exception: the commands that bring the robot to its end position, as one
\* entry of history.
post_procedure == << Event("procedure", "post_procedure", i, 0, None) >>

\* What in_progress_json.rename(done_json) can do: it raises when the
\* in-progress file does not exist, and also when the directory 00_done does
\* not exist (the run never creates it); otherwise the file is moved.
RenameOutcomes(file) ==
    IF file.state = "absent" THEN { "failed" } ELSE { "ok", "failed" }

\* in_progress_json.rename(done_json) followed by the dump into done_json:
\* a rename that raises ends the run and leaves both files as they are; the
\* dump can fail like any other write.  After a dump that succeeded the run
\* goes on to post_procedure and ends.
Promote(renamed, outcome) ==
    IF renamed = "failed"
    THEN /\ pc' = "raised"
         /\ history' = Append(history, Event("rename", "failed", i, 0, None))
         /\ UNCHANGED << in_progress_json, done_json >>
    ELSE /\ in_progress_json' = Absent
         /\ done_json' = FileAfterWrite(in_progress_json,
                                        DumpBullets(clay_bullets), outcome)
         /\ history' = history \o
                << Event("rename", "ok", i, 0, None),
                   Event("write done", outcome, i, 0, None) >>
                \o (IF outcome = "ok" THEN post_procedure ELSE << >>)
         /\ pc' = IF outcome = "ok" THEN "done" ELSE "raised"

\* run.py:255-277: promotion to 00_done, or keeping the in-progress file;
\* then post_procedure(abb)
ShutdownMain ==
    /\ runner = "main" /\ pc = "shutdown"
    /\ IF AllPlaced(clay_bullets) /\ ~skip_progress_file
       THEN \E renamed \in RenameOutcomes(in_progress_json), outcome \in WriteOutcomes :
              Promote(renamed, outcome)
       ELSE /\ pc' = "done"
            /\ history' = history \o post_procedure
            /\ UNCHANGED << in_progress_json, done_json >>
    /\ UNCHANGED << runner, clay_bullets, answers, to_place, i, skip_progress_file,
                    pending, pick_result, place_result, pick_cycle, place_cycle,
                    times, now, last_good >>
    /\ UNCHANGED genvars

----
\* The fabrication loop of abb_run (abb_runner.py:437-470).

\* The chunk of the current iteration: positions in clay_bullets.
chunk == chunks(to_place, ChunkSize)[i + 1]

\* abb_runner.py:440-452: pick_future = triple_pick(abb, pick_frames);
\* pick_cycle = {}
TriplePick ==
    /\ runner = "abb_run" /\ pc = "triple pick"
    /\ pending' = pending \o PickKeys
    /\ pick_cycle' = << >>
    /\ history' = Append(history, Event("send", "pick", i, 0, None))
    /\ pc' = "await picks"
    /\ UNCHANGED << runner, clay_bullets, answers, to_place, i, skip_progress_file,
                    pick_result, place_result, place_cycle, times, now,
                    in_progress_json, done_json, last_good >>
    /\ UNCHANGED genvars

\* Mutant of AwaitedKeys: the loop ends after its first turn.
AwaitedKeys_FirstOnly(futures) == SubSeq(futures, 1, 1)

\* The futures the loop `for key in futures: ...[key].result()` awaits, in
\* the order of its turns.
AwaitedKeys(futures) == futures

\* abb_runner.py:453-454: for key in pick_future:
\*     pick_cycle.update({key: pick_future[key].result()})
\* One turn of the loop: result() blocks until the robot has answered, and
\* pick_cycle holds the keys of the turns made so far.
AwaitPicks ==
    /\ runner = "abb_run" /\ pc = "await picks"
    /\ LET keys == AwaitedKeys(PickKeys)
           key == keys[Len(pick_cycle) + 1]
       IN  /\ pick_cycle' = Append(pick_cycle, key)
           /\ pending' = SelectSeq(pending, LAMBDA f : f # key)
           /\ history' = Append(history, Event("await", key, i, 0, None))
           /\ pc' = IF Len(pick_cycle) + 1 = Len(keys)
                    THEN "triple place" ELSE "await picks"
    /\ UNCHANGED << runner, clay_bullets, answers, to_place, i, skip_progress_file,
                    pick_result, place_result, place_cycle, times, now,
                    in_progress_json, done_json, last_good >>
    /\ UNCHANGED genvars

\* abb_runner.py:457-459: place_futures = place_bullet_triple(abb, chunk);
\* place_cycle = {}
PlaceBulletTriple ==
    /\ runner = "abb_run" /\ pc = "triple place"
    /\ pending' = pending \o PlaceKeys
    /\ place_cycle' = << >>
    /\ history' = Append(history, Event("send", "place", i, 0, None))
    /\ pc' = "await places"
    /\ UNCHANGED << runner, clay_bullets, answers, to_place, i, skip_progress_file,
                    pick_result, place_result, pick_cycle, times, now,
                    in_progress_json, done_json, last_good >>
    /\ UNCHANGED genvars

\* abb_runner.py:460-461: for key in place_futures:
\*     place_cycle.update({key: place_futures[key].result()})
\* One turn of the loop, as in AwaitPicks.
AwaitPlaces ==
    /\ runner = "abb_run" /\ pc = "await places"
    /\ LET keys == AwaitedKeys(PlaceKeys)
           key == keys[Len(place_cycle) + 1]
       IN  /\ place_cycle' = Append(place_cycle, key)
           /\ pending' = SelectSeq(pending, LAMBDA f : f # key)
           /\ history' = Append(history, Event("await", key, i, 0, None))
           /\ pc' = IF Len(place_cycle) + 1 = Len(keys)
                    THEN "stamp chunk" ELSE "await places"
    /\ UNCHANGED << runner, clay_bullets, answers, to_place, i, skip_progress_file,
                    pick_result, place_result, pick_cycle, times, now,
                    in_progress_json, done_json, last_good >>
    /\ UNCHANGED genvars

\* What n calls of time.time() with nothing in between can return when the
\* first returns t: a later call returns what the call before it returned, or
\* a later time.
ClockReads(t, n) ==
    { r \in [1..n -> t..Min(t + n - 1, MaxTime)] :
        /\ n >= 1 => r[1] = t
        /\ \A k \in 2..n : r[k] \in { r[k - 1], Tick(r[k - 1]) } }

\* The ledger after `for bullet in chunk: bullet.placed = time.time()`, the
\* calls of time.time() returning stamps.
StampChunkBullets(bullets, ch, stamps) ==
    [k \in 1..Len(bullets) |->
        IF \E c \in 1..Len(ch) : ch[c] = k
        THEN LET c == CHOOSE c \in 1..Len(ch) : ch[c] = k /\ \A e \in (c + 1)..Len(ch) : ch[e] # k
             IN  [bullets[k] EXCEPT !.placed = stamps[c]]
        ELSE bullets[k]]

\* abb_runner.py:463-467: times.append({**pick_cycle, **place_cycle}); every
\* bullet of the chunk gets placed = time.time().  cycle_time is not assigned.
StampChunk ==
    /\ runner = "abb_run" /\ pc = "stamp chunk"
    /\ times' = Append(times, pick_cycle \o place_cycle)
    /\ \E stamps \in ClockReads(now, Len(chunk)) :
         /\ clay_bullets' = StampChunkBullets(clay_bullets, chunk, stamps)
         /\ history' = history \o
              [c \in 1..Len(chunk) |-> Event("assign", "placed", i, chunk[c], stamps[c])]
         /\ now' = Tick(stamps[Len(chunk)])
    /\ pc' = "write times"
    /\ UNCHANGED << runner, answers, to_place, i, skip_progress_file, pending,
                    pick_result, place_result, pick_cycle, place_cycle,
                    in_progress_json, done_json, last_good >>
    /\ UNCHANGED genvars

\* What abb_run dumps into the in-progress file after a chunk.
ChunkProgress(bullets, t) == DumpTimes(t)

\* abb_runner.py:469-470: json.dump(times, fp) into in_progress_json; then
\* the next iteration, or the shutdown procedure.  An exception leaves the
\* loop in the iteration it was raised in.
WriteTimes ==
    /\ runner = "abb_run" /\ pc = "write times"
    /\ \E outcome \in WriteOutcomes :
         /\ WriteFile(ChunkProgress(clay_bullets, times), outcome,
                      ChunkLoopPc(i + 1, to_place))
         /\ i' = IF outcome = "ok" THEN i + 1 ELSE i
    /\ UNCHANGED << runner, clay_bullets, answers, to_place, skip_progress_file, pending,
                    pick_result, place_result, pick_cycle, place_cycle, times,
                    now, done_json >>
    /\ UNCHANGED genvars

\* abb_runner.py:476-497: promotion to 00_done, or keeping the in-progress
\* file; then post_procedure(abb)
ShutdownChunked ==
    /\ runner = "abb_run" /\ pc = "shutdown"
    /\ IF AllPlaced(clay_bullets)
       THEN \E renamed \in RenameOutcomes(in_progress_json), outcome \in WriteOutcomes :
              Promote(renamed, outcome)
       ELSE /\ pc' = "done"
            /\ history' = history \o post_procedure
            /\ UNCHANGED << in_progress_json, done_json >>
    /\ UNCHANGED << runner, clay_bullets, answers, to_place, i, skip_progress_file,
                    pending, pick_result, place_result, pick_cycle, place_cycle,
                    times, now, last_good >>
    /\ UNCHANGED genvars

----
Next ==
    \/ SetupFabData
    \/ ConfirmAndReset
    \/ PickBullet
    \/ PlaceBullet
    \/ MarkPlaced
    \/ WriteProgress
    \/ AwaitPick
    \/ AwaitPlace
    \/ StampBullet
    \/ FinalWrite
    \/ ShutdownMain
    \/ TriplePick
    \/ AwaitPicks
    \/ PlaceBulletTriple
    \/ AwaitPlaces
    \/ StampChunk
    \/ WriteTimes
    \/ ShutdownChunked

Spec == Init /\ [][Next]_vars

----
\* Script generation: values.

\* clay_shooting.py:10  ROBOT_L_SPEED = 0.6 m/s, in mm/s.
ROBOT_L_SPEED == 600

\* clay_shooting.py:11  ROBOT_ACCEL = 0.8 m/s2, in mm/s2.
ROBOT_ACCEL == 800

\* clay_shooting.py:12  ROBOT_SAFE_SPEED = .8, in thousandths.
ROBOT_SAFE_SPEED == 800

\* clay_shooting.py:14  BLEND_RADIUS_PUSHING = .002 m, in mm.
BLEND_RADIUS_PUSHING == 2

\* clay_shooting.py:17  TOOL_HEIGHT = 192 mm.
TOOL_HEIGHT == 192

\* clay_shooting.py:20  ACTUATOR_IO = 4.
ACTUATOR_IO == 4

\* clay_shooting.py:67  sleep=.5 s, the default dwell of _shooting_moves, in ms.
DefaultSleep == 500

\* clay_shooting.py:137  entry_exit_offset=-40, the default of clay_shooting.
DefaultOffset == -40

\* Most pushes asked of one placement.
MaxPushes == 2

\* Most frames in a list of safe-travel frames.
MaxPlanes == 2

\* Most placing frames handed to clay_shooting.
MaxPlacing == 2

\* Most command strings handed to concatenate_script.
MaxCmds == 2

\* Longest command string handed to concatenate_script.
MaxStrLen == 2

\* math.radians, in thousandths of a radian.
Radians(deg) == (deg * 31416) \div 1800

\* A frame (rg.Plane) is the frame it was made as and the moves applied to it
\* since, in call order.
Frame(name) == [base |-> name, ops |-> << >>]

\* rg.Vector3d along a named direction: "normal" is the normal of the frame
\* the vector was read from, "z" is the world z axis.
Vector3d(dir, k) == [dir |-> dir, k |-> k]

\* plane.Normal
Normal(plane) == Vector3d("normal", 1)

\* rg.Vector3d(0, 0, z)
WorldZ(z) == Vector3d("z", z)

\* vector * scalar
Scale(v, s) == [v EXCEPT !.k = v.k * s]

\* plane.Origin
Origin(plane) == [origin_of |-> plane]

\* plane.Clone()
Clone(plane) == plane

\* plane.Translate(v): the frame after the call.
Translate(plane, v) ==
    [plane EXCEPT !.ops = Append(@, [op |-> "translate", dir |-> v.dir, k |-> v.k])]

\* plane.Rotate(angle, axis, center): the frame after the call.
RotateAbout(plane, angle, axis, center) ==
    [plane EXCEPT !.ops = Append(@, [op |-> "rotate", angle |-> angle,
                                     axis |-> axis, center |-> center])]

\* plane.Rotate(angle, axis): about the frame's own origin.
Rotate(plane, angle, axis) == RotateAbout(plane, angle, axis, Origin(plane))

\* The commands of ur_standard: each call returns the text of one command,
\* here the one-command script.
move_l(plane, speed, accel, blend_radius) ==
    << [cmd |-> "movel", target |-> plane, speed |-> speed, accel |-> accel,
        blend_radius |-> blend_radius] >>

move_j_pose(plane, speed, accel) ==
    << [cmd |-> "movej_pose", target |-> plane, speed |-> speed, accel |-> accel] >>

move_j(joints, speed, accel) ==
    << [cmd |-> "movej", target |-> joints, speed |-> speed, accel |-> accel] >>

set_digital_out(io, value) ==
    << [cmd |-> "set_digital_out", io |-> io, value |-> value] >>

sleep(t) == << [cmd |-> "sleep", t |-> t] >>

set_tcp_by_plane_angles(x, y, z, rx, ry, rz) ==
    << [cmd |-> "set_tcp", x |-> x, y |-> y, z |-> z, rx |-> rx, ry |-> ry, rz |-> rz] >>

UR_log(n) == << [cmd |-> "textmsg", bullet |-> n] >>

\* utils.list_elem_w_index_wrap(l, i): the element at i, wrapping around.
list_elem_w_index_wrap(l, j) == l[(j % Len(l)) + 1]

----
\* Script generation: the move generators of clay_shooting.py.

\* Mutant of _get_offset_plane: the frames are not cloned, so the caller's
\* frame is moved twice and entry and exit are that one frame.
_get_offset_plane_InPlace(initial_plane, dist, vertical_offset_bool) ==
    LET plane_normal == Normal(initial_plane)
        directions == IF vertical_offset_bool
                      THEN << WorldZ(-1), plane_normal >>
                      ELSE << plane_normal, plane_normal >>
        moved == Translate(Translate(initial_plane, Scale(directions[1], dist)),
                           Scale(directions[2], dist))
    IN  [entry |-> moved, exit |-> moved, initial_plane |-> moved]

\* clay_shooting.py:23-42: the entry and exit frames, and the caller's frame
\* after the call.
_get_offset_plane(initial_plane, dist, vertical_offset_bool) ==
    LET plane_normal == Normal(initial_plane)
        directions == IF vertical_offset_bool
                      THEN << WorldZ(-1), plane_normal >>
                      ELSE << plane_normal, plane_normal >>
    IN  [entry |-> Translate(Clone(initial_plane), Scale(directions[1], dist)),
         exit  |-> Translate(Clone(initial_plane), Scale(directions[2], dist)),
         initial_plane |-> initial_plane]

\* Mutant of _default_movel: the blend radius asked for is dropped.
_default_movel_NoBlend(plane, blend_radius) ==
    move_l(plane, ROBOT_L_SPEED, ROBOT_ACCEL, 0)

\* clay_shooting.py:45-46
_default_movel(plane, blend_radius) ==
    move_l(plane, ROBOT_L_SPEED, ROBOT_ACCEL, blend_radius)

\* Mutant of _picking_moves: the rotated frame is visited whatever the rotation.
_picking_moves_AlwaysRotated(plane, entry_exit_offset, rotation, vertical_offset_bool) ==
    LET off == _get_offset_plane(plane, entry_exit_offset, vertical_offset_bool)
        rotated_plane == Rotate(Clone(plane), Radians(rotation), Normal(plane))
    IN  _default_movel(off.entry, 0) \o _default_movel(plane, 0)
            \o _default_movel(rotated_plane, 0) \o _default_movel(off.exit, 0)

\* clay_shooting.py:49-64
_picking_moves(plane, entry_exit_offset, rotation, vertical_offset_bool) ==
    LET off == _get_offset_plane(plane, entry_exit_offset, vertical_offset_bool)
        rotated_plane == Rotate(Clone(plane), Radians(rotation), Normal(plane))
    IN  _default_movel(off.entry, 0)
            \o _default_movel(plane, 0)
            \o (IF rotation > 0 THEN _default_movel(rotated_plane, 0) ELSE << >>)
            \o _default_movel(off.exit, 0)

\* Mutant of _push_moves: every push turns by one angle_step, not by the
\* cumulative angle.
_push_moves_SameAngle(plane, push_conf, vertical_offset_bool) ==
    LET direction == IF vertical_offset_bool THEN WorldZ(-1) ELSE Normal(plane)
        offset_plane == Translate(Clone(plane), Scale(direction, -push_conf.push_offsets))
    IN  [k \in 1..push_conf.n_pushes |->
            _default_movel(RotateAbout(Clone(offset_plane), Radians(push_conf.angle_steps),
                                       push_conf.push_rotation_axis, Origin(plane)),
                           BLEND_RADIUS_PUSHING)[1]]

\* clay_shooting.py:88-112; the k-th element is the move of loop index i = k - 1.
_push_moves(plane, push_conf, vertical_offset_bool) ==
    LET n == push_conf.n_pushes
        dist == push_conf.push_offsets
        angle_step == push_conf.angle_steps
        rot_axis == push_conf.push_rotation_axis
        direction == IF vertical_offset_bool THEN WorldZ(-1) ELSE Normal(plane)
        offset_plane == Translate(Clone(plane), Scale(direction, -dist))
        rot_plane(j) == RotateAbout(Clone(offset_plane), Radians((j + 1) * angle_step),
                                    rot_axis, Origin(plane))
    IN  [k \in 1..n |-> _default_movel(rot_plane(k - 1), BLEND_RADIUS_PUSHING)[1]]

\* Mutant of _shooting_moves: the actuator is switched off only after a push.
_shooting_moves_OffAfterPush(plane, entry_exit_offset, push_conf, vertical_offset_bool, dwell) ==
    LET off == _get_offset_plane(plane, entry_exit_offset, vertical_offset_bool)
    IN  _default_movel(off.entry, 0) \o _default_movel(plane, 0)
            \o set_digital_out(ACTUATOR_IO, TRUE) \o sleep(dwell)
            \o (IF push_conf.pushing
                THEN _push_moves(plane, push_conf, vertical_offset_bool) ELSE << >>)
            \o _default_movel(off.exit, 0)
            \o (IF push_conf.pushing
                THEN set_digital_out(ACTUATOR_IO, FALSE) ELSE << >>)

\* Mutant of _shooting_moves: the actuator is switched on before the contact
\* move.
_shooting_moves_OnBeforeContact(plane, entry_exit_offset, push_conf, vertical_offset_bool, dwell) ==
    LET off == _get_offset_plane(plane, entry_exit_offset, vertical_offset_bool)
    IN  _default_movel(off.entry, 0)
            \o set_digital_out(ACTUATOR_IO, TRUE) \o _default_movel(plane, 0) \o sleep(dwell)
            \o (IF push_conf.pushing
                THEN _push_moves(plane, push_conf, vertical_offset_bool) ELSE << >>)
            \o _default_movel(off.exit, 0)
            \o set_digital_out(ACTUATOR_IO, FALSE)

\* clay_shooting.py:67-85
_shooting_moves(plane, entry_exit_offset, push_conf, vertical_offset_bool, dwell) ==
    LET off == _get_offset_plane(plane, entry_exit_offset, vertical_offset_bool)
    IN  _default_movel(off.entry, 0)
            \o _default_movel(plane, 0)
            \o set_digital_out(ACTUATOR_IO, TRUE)
            \o sleep(dwell)
            \o (IF push_conf.pushing
                THEN _push_moves(plane, push_conf, vertical_offset_bool) ELSE << >>)
            \o _default_movel(off.exit, 0)
            \o set_digital_out(ACTUATOR_IO, FALSE)

\* planes[::-1]: a new list, the elements in reverse.
Reversed(lst) == [k \in 1..Len(lst) |-> lst[Len(lst) + 1 - k]]

\* Mutant of _safe_travel_plane_moves: the caller's list is reversed in place
\* (planes.reverse()).
_safe_travel_plane_moves_InPlace(planes, reverse) ==
    LET local == IF reverse THEN Reversed(planes) ELSE planes
    IN  [script |-> [k \in 1..Len(local) |->
                        move_j_pose(local[k], ROBOT_SAFE_SPEED, ROBOT_ACCEL)[1]],
         planes |-> local]

\* clay_shooting.py:115-124: the script, and the caller's list after the call
\* (line 118 rebinds the local name to a new list).
_safe_travel_plane_moves(planes, reverse) ==
    LET local == IF reverse THEN Reversed(planes) ELSE planes
    IN  [script |-> [k \in 1..Len(local) |->
                        move_j_pose(local[k], ROBOT_SAFE_SPEED, ROBOT_ACCEL)[1]],
         planes |-> planes]

----
\* Script generation: concatenate_script of comm.py.  A text is the sequence
\* of its characters; a run of characters that holds neither a newline nor a
\* tab is written as one element.

\* "\n"
NL == "\n"

\* "\t"
TAB == "\t"

\* text.split("\n"): the pieces between the newlines, at least one piece.
RECURSIVE Split(_)
Split(text) ==
    IF \A k \in 1..Len(text) : text[k] # NL
    THEN << text >>
    ELSE LET k == CHOOSE k \in 1..Len(text) :
                      text[k] = NL /\ \A j \in 1..(k - 1) : text[j] # NL
         IN  << SubSeq(text, 1, k - 1) >> \o Split(SubSeq(text, k + 1, Len(text)))

\* comm.py:29-31: combined_script += ur_cmd, for each ur_cmd in turn.
RECURSIVE Combined(_)
Combined(list_ur_commands) ==
    IF list_ur_commands = << >>
    THEN << >>
    ELSE Head(list_ur_commands) \o Combined(Tail(list_ur_commands))

\* comm.py:35-36: ur_script += "\t" + l + "\n", for each l in turn.
RECURSIVE Indented(_)
Indented(lines) ==
    IF lines = << >>
    THEN << >>
    ELSE << TAB >> \o Head(lines) \o << NL >> \o Indented(Tail(lines))

\* comm.py:26
ProcedureDeclaration == << NL, "def clay_script():", NL >>

\* comm.py:38
ProcedureEnd == << "end", NL >>

\* comm.py:39
ProcedureInvocation == << NL, "clay_script()", NL >>

\* Mutant of concatenate_script: the lines are joined by a separator instead of
\* each being ended, so the piece after the last newline gets no line.
concatenate_script_NoTrailingPiece(list_ur_commands) ==
    LET lines == Split(Combined(list_ur_commands))
    IN  ProcedureDeclaration \o Indented(SubSeq(lines, 1, Len(lines) - 1))
            \o ProcedureEnd \o ProcedureInvocation

\* comm.py:14-40
concatenate_script(list_ur_commands) ==
    LET combined_script == Combined(list_ur_commands)
        lines == Split(combined_script)
    IN  ProcedureDeclaration \o Indented(lines) \o ProcedureEnd \o ProcedureInvocation

----
\* comm.py: get_ip_ur.

\* Most robot ids handed to get_ip_ur.
MaxRobotId == 3

\* The decimal digits.
Digits == << "0", "1", "2", "3", "4", "5", "6", "7", "8", "9" >>

\* str(n) of an integer.
RECURSIVE Str(_)
Str(n) ==
    IF n < 0
    THEN << "-" >> \o Str(-n)
    ELSE IF n < 10
         THEN << Digits[n + 1] >>
         ELSE Str(n \div 10) \o << Digits[(n % 10) + 1] >>

\* comm.py:106
subnet == << "192.168.10." >>

\* Mutant of get_ip_ur: only the last digit of the host number is written.
get_ip_ur_LastDigit(ur_number, offline_simulation) ==
    IF ~offline_simulation
    THEN subnet \o Str((ur_number + 9) % 10)
    ELSE << "localhost" >>

\* comm.py:96-112
get_ip_ur(ur_number, offline_simulation) ==
    IF ~offline_simulation
    THEN subnet \o Str(ur_number + 9)
    ELSE << "localhost" >>

----
\* comm.py: get_messages.  A buffer is the sequence of its bytes.

\* Bytes a buffer must hold for get_messages to decode it.
FrameEnd == 748

\* Bytes read by one recv.
RecvSize == 1024

\* How far a byte of a buffer is moved off the pattern.
MaxByteChange == 1

\* bytes[a:b]
Slice(bytes, a, b) == SubSeq(bytes, a + 1, Min(b, Len(bytes)))

\* A 64-bit float read big-endian from 8 bytes: its bytes, the most
\* significant first.
Double(b) == [be |-> b]

\* struct.unpack("!d" * count, b): the floats, or an error when b does not
\* hold exactly 8 * count bytes.
Unpack(count, b) ==
    IF Len(b) # 8 * count
    THEN [raised |-> TRUE, values |-> << >>]
    ELSE [raised |-> FALSE,
          values |-> [k \in 1..count |-> Double(SubSeq(b, 8 * (k - 1) + 1, 8 * k))]]

\* math.degrees of a float.
Degrees(x) == [degrees |-> x]

\* comm.py:161-166: the dictionary listen_to_robot hands to get_messages.
EmptyChunks ==
    [target_joints |-> << >>, actual_joints |-> << >>, forces |-> << >>,
     pose |-> << >>, time |-> << 0 >>]

\* (math.degrees(j) for j in values): a generator over the converted values,
\* not yet consumed.
Generator(values) == [generator |-> [k \in 1..Len(values) |-> Degrees(values[k])]]

\* Mutant of get_messages: the forces are converted to degrees too.
get_messages_ForcesInDegrees(bytes, chunks_info) ==
    LET target_joints == Unpack(6, Slice(bytes, 12, 60))
        actual_joints == Unpack(6, Slice(bytes, 252, 300))
        forces == Unpack(6, Slice(bytes, 540, 588))
        pose == Unpack(6, Slice(bytes, 588, 636))
        time == Unpack(1, Slice(bytes, 740, 748))
        stored1 == [chunks_info EXCEPT !.target_joints = Generator(target_joints.values)]
        stored2 == [stored1 EXCEPT !.actual_joints = Generator(actual_joints.values)]
        stored3 == [stored2 EXCEPT !.forces =
                       [k \in 1..Len(forces.values) |-> Degrees(forces.values[k])]]
        stored4 == [stored3 EXCEPT !.pose = pose.values]
        stored5 == [stored4 EXCEPT !.time = time.values]
    IN  IF target_joints.raised THEN [raised |-> TRUE, chunks |-> chunks_info]
        ELSE IF actual_joints.raised THEN [raised |-> TRUE, chunks |-> stored1]
        ELSE IF forces.raised THEN [raised |-> TRUE, chunks |-> stored2]
        ELSE IF pose.raised THEN [raised |-> TRUE, chunks |-> stored3]
        ELSE IF time.raised THEN [raised |-> TRUE, chunks |-> stored4]
        ELSE [raised |-> FALSE, chunks |-> stored5]

\* comm.py:195-229: each field is stored in the caller's dictionary as soon as
\* it is unpacked, so the error of an unpack leaves the fields stored before
\* it; the two joint fields are stored as generators.
get_messages(bytes, chunks_info) ==
    LET q_target == Slice(bytes, 12, 60)
        q_actual == Slice(bytes, 252, 300)
        tcp_force == Slice(bytes, 540, 588)
        tool_vector == Slice(bytes, 588, 636)
        controller_time == Slice(bytes, 740, 748)
        target_joints == Unpack(6, q_target)
        actual_joints == Unpack(6, q_actual)
        forces == Unpack(6, tcp_force)
        pose == Unpack(6, tool_vector)
        time == Unpack(1, controller_time)
        stored1 == [chunks_info EXCEPT !.target_joints = Generator(target_joints.values)]
        stored2 == [stored1 EXCEPT !.actual_joints = Generator(actual_joints.values)]
        stored3 == [stored2 EXCEPT !.forces = forces.values]
        stored4 == [stored3 EXCEPT !.pose = pose.values]
        stored5 == [stored4 EXCEPT !.time = time.values]
    IN  IF target_joints.raised THEN [raised |-> TRUE, chunks |-> chunks_info]
        ELSE IF actual_joints.raised THEN [raised |-> TRUE, chunks |-> stored1]
        ELSE IF forces.raised THEN [raised |-> TRUE, chunks |-> stored2]
        ELSE IF pose.raised THEN [raised |-> TRUE, chunks |-> stored3]
        ELSE IF time.raised THEN [raised |-> TRUE, chunks |-> stored4]
        ELSE [raised |-> FALSE, chunks |-> stored5]

\* A buffer of n bytes that differ from their neighbours.
Pattern(n) == [k \in 1..n |-> (k - 1) % 256]

\* The offsets (0-based) around the ends of the five fields.
EdgeOffsets ==
    UNION { { a - 1, a, b - 1, b } :
            << a, b >> \in { << 12, 60 >>, << 252, 300 >>, << 540, 588 >>,
                              << 588, 636 >>, << 740, 748 >> } }

\* Lengths of buffers that end before the frame does: nothing, and one byte
\* short of a field's end or right at it.
ShortLengths == { 0, 59, 60, 300, 588, 636, FrameEnd - 1 }

\* The buffers handed to get_messages: the pattern, the pattern with one
\* byte changed, and the pattern cut short.
Buffers ==
    UNION { { Pattern(n) } \cup
            { [Pattern(n) EXCEPT ![p + 1] = (@ + d) % 256] :
                p \in { q \in EdgeOffsets : q < n }, d \in 1..MaxByteChange } :
            n \in { FrameEnd, RecvSize } }
    \cup { Pattern(n) : n \in ShortLengths }

----
\* abb_runner.py: pick_frame_from_grid.  The size of the picking plate is
\* read from the configuration; a frame is known by its position in the grid
\* and the bullet height it was computed from.

\* Greatest index handed to pick_frame_from_grid.
MaxIndex == 4

\* Greatest number of grid positions along one axis of the picking plate.
MaxGrid == 3

\* abb_runner.py:447: the bullet height abb_run passes.
BulletHeight == 150

\* abb_runner.py:224-265
pick_frame_from_grid(index, bullet_height, xnum, ynum) ==
    LET wrapped == (index * 3) % (xnum * ynum)
    IN  [k \in 1..3 |->
            [xpos |-> (wrapped + (k - 1)) % xnum,
             ypos |-> (wrapped + (k - 1)) \div xnum,
             bullet_height |-> bullet_height]]

----
\* CallSpec: one generator applied to arguments drawn from bounded sets.

\* No runner runs.
RunIdle ==
    /\ runner = "none"
    /\ pc = "idle"
    /\ clay_bullets = << >>
    /\ answers = NotAsked
    /\ to_place = << >>
    /\ i = 0
    /\ skip_progress_file = FALSE
    /\ pending = << >>
    /\ pick_result = None
    /\ place_result = None
    /\ pick_cycle = << >>
    /\ place_cycle = << >>
    /\ times = << >>
    /\ now = StartTime
    /\ in_progress_json = Absent
    /\ done_json = Absent
    /\ last_good = Absent
    /\ history = << >>

\* The first n frames a caller holds.
Frames(n) == [k \in 1..n |-> Frame(k)]

\* The per-placement push configurations.
PushConfs ==
    [pushing : BOOLEAN, n_pushes : 0..MaxPushes, push_offsets : {5},
     angle_steps : {15, -10}, push_rotation_axis : {"x"}]

\* The texts of at most n characters over a character and the newline.
RECURSIVE Texts(_)
Texts(n) ==
    IF n = 0
    THEN { << >> }
    ELSE Texts(n - 1) \cup { Append(t, c) : t \in { u \in Texts(n - 1) : Len(u) = n - 1 },
                                            c \in { "x", NL } }

\* The lists of at most n texts.
RECURSIVE TextLists(_)
TextLists(n) ==
    IF n = 0
    THEN { << >> }
    ELSE TextLists(n - 1)
            \cup { Append(l, t) : l \in { m \in TextLists(n - 1) : Len(m) = n - 1 },
                                  t \in Texts(MaxStrLen) }

\* The calls CallSpec makes.
CallArgs ==
    [fn : {"_picking_moves"}, plane : {Frame(1)}, entry_exit_offset : {DefaultOffset, 10},
     rotation : {-30, 0, 30}, vertical_offset_bool : BOOLEAN]
    \cup
    [fn : {"_shooting_moves"}, plane : {Frame(1)}, entry_exit_offset : {DefaultOffset},
     push_conf : PushConfs, vertical_offset_bool : BOOLEAN, sleep : {DefaultSleep}]
    \cup
    [fn : {"_push_moves"}, plane : {Frame(1)}, push_conf : PushConfs,
     vertical_offset_bool : BOOLEAN]
    \cup
    [fn : {"_safe_travel_plane_moves"}, planes : { Frames(n) : n \in 0..MaxPlanes },
     reverse : BOOLEAN]
    \cup
    [fn : {"concatenate_script"}, list_ur_commands : TextLists(MaxCmds)]
    \cup
    [fn : {"_get_offset_plane"},
     initial_plane : { Frame(1), Translate(Frame(1), WorldZ(3)) },
     dist : {DefaultOffset, 10}, vertical_offset_bool : BOOLEAN]
    \cup
    [fn : {"get_ip_ur"}, ur_number : 0..MaxRobotId, offline_simulation : BOOLEAN]
    \cup
    [fn : {"get_messages"}, bytes : Buffers, chunks_info : { EmptyChunks }]
    \cup
    [fn : {"pick_frame_from_grid"}, index : 0..MaxIndex, bullet_height : { BulletHeight },
     xnum : 1..MaxGrid, ynum : 1..MaxGrid]

CallInit ==
    /\ RunIdle
    /\ call_pc = "call"
    /\ args \in CallArgs
    /\ result = << >>
    /\ picking_planes = << >>
    /\ placing_planes = << >>
    /\ instructions = << >>
    /\ script = << >>
    /\ unit = 0
    /\ sockets = << >>
    /\ stdout = << >>

\* The call returns value.
Return(value) ==
    /\ call_pc = "call"
    /\ result' = value
    /\ call_pc' = "returned"
    /\ UNCHANGED << runvars, sockets, stdout, args, picking_planes, placing_planes, instructions,
                    script, unit >>

Call_picking_moves ==
    /\ args.fn = "_picking_moves"
    /\ Return(_picking_moves(args.plane, args.entry_exit_offset, args.rotation,
                             args.vertical_offset_bool))

Call_shooting_moves ==
    /\ args.fn = "_shooting_moves"
    /\ Return(_shooting_moves(args.plane, args.entry_exit_offset, args.push_conf,
                              args.vertical_offset_bool, args.sleep))

Call_push_moves ==
    /\ args.fn = "_push_moves"
    /\ Return(_push_moves(args.plane, args.push_conf, args.vertical_offset_bool))

Call_safe_travel_plane_moves ==
    /\ args.fn = "_safe_travel_plane_moves"
    /\ Return(_safe_travel_plane_moves(args.planes, args.reverse))

Call_concatenate_script ==
    /\ args.fn = "concatenate_script"
    /\ Return(concatenate_script(args.list_ur_commands))

Call_get_offset_plane ==
    /\ args.fn = "_get_offset_plane"
    /\ Return(_get_offset_plane(args.initial_plane, args.dist, args.vertical_offset_bool))

\* comm.py:96-112: the address is printed and returned.
Call_get_ip_ur ==
    /\ args.fn = "get_ip_ur"
    /\ call_pc = "call"
    /\ LET ip == get_ip_ur(args.ur_number, args.offline_simulation)
       IN  /\ stdout' = Append(stdout, ip)
           /\ result' = ip
    /\ call_pc' = "returned"
    /\ UNCHANGED << runvars, sockets, args, picking_planes, placing_planes, instructions,
                    script, unit >>

Call_get_messages ==
    /\ args.fn = "get_messages"
    /\ Return(get_messages(args.bytes, args.chunks_info))

Call_pick_frame_from_grid ==
    /\ args.fn = "pick_frame_from_grid"
    /\ Return(pick_frame_from_grid(args.index, args.bullet_height, args.xnum, args.ynum))

CallNext ==
    \/ Call_picking_moves
    \/ Call_shooting_moves
    \/ Call_push_moves
    \/ Call_safe_travel_plane_moves
    \/ Call_concatenate_script
    \/ Call_get_offset_plane
    \/ Call_get_ip_ur
    \/ Call_get_messages
    \/ Call_pick_frame_from_grid

CallSpec == CallInit /\ [][CallNext]_vars

----
\* ShootingSpec: clay_shooting, step by step.

\* clay_shooting.py:155-156, the degrees in hundredths.
SafeDegrees1 == << -5031, -9174, 7455, -7612, -9286, 5234 >>

SafeDegrees2 == << 200, -9174, 7455, -7612, -9286, 5234 >>

\* clay_shooting.py:155-156: [m.radians(x) for x in [...]], in thousandths of
\* a radian.
SafePos(hundredths) ==
    [k \in 1..Len(hundredths) |-> (hundredths[k] * 31416) \div 180000]

safe_pos_1 == SafePos(SafeDegrees1)

safe_pos_2 == SafePos(SafeDegrees2)

\* The keys of push_conf.
PushKeys == { "pushing", "n_pushes", "push_offsets", "angle_steps", "push_rotation_axis" }

\* A value of push_conf: None, or a list.
NoList == [none |-> TRUE]

ListOf(l) == [none |-> FALSE, list |-> l]

\* The lists of booleans of length n.
BoolLists(n) == [1..n -> BOOLEAN]

\* A list of n push counts, each unit its own.
PushCounts(n) == [k \in 1..n |-> k % (MaxPushes + 1)]

\* The push configurations handed to clay_shooting for n placing frames:
\* lists of every length up to n + 1, and None where nothing reads the value.
ShootingPushConfs(n) ==
    { c \in [pushing : { ListOf(l) : l \in UNION { BoolLists(m) : m \in 0..(n + 1) } },
             n_pushes : { NoList } \cup { ListOf(PushCounts(m)) : m \in 0..(n + 1) },
             push_offsets : { ListOf(<< 5 >>) },
             angle_steps : { ListOf(<< 15 >>) },
             push_rotation_axis : { NoList, ListOf(<< "x" >>) }] :
        (c.n_pushes.none \/ c.push_rotation_axis.none) =>
            \A k \in 1..Len(c.pushing.list) : ~c.pushing.list[k] }

\* The frames of a caller's list.
NamedFrames(name, n) == [k \in 1..n |-> Frame(<< name, k >>)]

\* The calls of clay_shooting.
ShootingArgs ==
    UNION { [fn : {"clay_shooting"},
             picking_planes : { NamedFrames("picking", m) : m \in 1..MaxPlacing },
             placing_planes : { NamedFrames("placing", n) },
             safe_travel_planes : { NamedFrames("travel", 1) },
             dry_run : BOOLEAN,
             push_conf : ShootingPushConfs(n),
             tool_rotation : {0},
             picking_rotation : {0, 90},
             tool_height_correction : {0},
             z_calib_picking : {3},
             z_calib_placing : {7},
             entry_exit_offset : {DefaultOffset},
             vertical_offset_bool : {FALSE},
             viz_planes_bool : {FALSE},
             placing_index : {0}] : n \in 0..MaxPlacing }

ShootingInit ==
    /\ RunIdle
    /\ call_pc = "start"
    /\ args \in ShootingArgs
    /\ result = << >>
    /\ picking_planes = args.picking_planes
    /\ placing_planes = args.placing_planes
    /\ instructions = << >>
    /\ script = << >>
    /\ unit = 0
    /\ sockets = << >>
    /\ stdout = << >>

\* Mutant of Preamble: the actuator is not retracted at the start.
Preamble_NoRetract ==
    /\ call_pc = "start"
    /\ LET tool_height == TOOL_HEIGHT + args.tool_height_correction
       IN  script' = set_tcp_by_plane_angles(0, 0, tool_height, 0, 0,
                                             Radians(args.tool_rotation))
                        \o move_j(safe_pos_1, ROBOT_ACCEL, ROBOT_SAFE_SPEED)
    /\ call_pc' = "validate"
    /\ UNCHANGED << runvars, sockets, stdout, args, result, picking_planes, placing_planes,
                    instructions, unit >>

\* clay_shooting.py:145-158: set the tool, retract the actuator, go to the
\* first safe position.
Preamble ==
    /\ call_pc = "start"
    /\ LET tool_height == TOOL_HEIGHT + args.tool_height_correction
       IN  script' = set_tcp_by_plane_angles(0, 0, tool_height, 0, 0,
                                             Radians(args.tool_rotation))
                        \o set_digital_out(ACTUATOR_IO, FALSE)
                        \o move_j(safe_pos_1, ROBOT_ACCEL, ROBOT_SAFE_SPEED)
    /\ call_pc' = "validate"
    /\ UNCHANGED << runvars, sockets, stdout, args, result, picking_planes, placing_planes,
                    instructions, unit >>

\* clay_shooting.py:165-169: the value passes the check of the loop.
LengthAccepted(value, planes) ==
    \/ value.none
    \/ Len(value.list) = Len(planes)
    \/ Len(value.list) = 1

\* Where the fabrication loop goes for unit j (0-based).
UnitPc(j) ==
    IF j >= Len(placing_planes)
    THEN "finish"
    ELSE IF args.dry_run THEN "place" ELSE "pick"

\* clay_shooting.py:165-171: raise on the first value whose length fits
\* neither the placing frames nor 1.
ValidatePushConf ==
    /\ call_pc = "validate"
    /\ IF \A key \in PushKeys : LengthAccepted(args.push_conf[key], placing_planes)
       THEN /\ call_pc' = "instructions"
            /\ result' = result
       ELSE /\ call_pc' = "raised"
            /\ \E key \in PushKeys :
                 /\ ~LengthAccepted(args.push_conf[key], placing_planes)
                 /\ result' = [raised |-> "Mismatched", key |-> key]
    /\ UNCHANGED << runvars, sockets, stdout, args, picking_planes, placing_planes, instructions,
                    script, unit >>

\* Mutant of plane_push_conf: every unit gets the first element.
plane_push_conf_FirstElement(push_conf, j) ==
    [key \in PushKeys |->
        IF ~push_conf[key].none THEN push_conf[key].list[1] ELSE None]

\* clay_shooting.py:182-189: the push configuration of unit j (0-based).
plane_push_conf(push_conf, j) ==
    [key \in PushKeys |->
        IF ~push_conf[key].none
        THEN list_elem_w_index_wrap(push_conf[key].list, j)
        ELSE None]

\* clay_shooting.py:173-193: one instruction per placing frame.  The frames
\* are objects: an instruction holds the positions of its frames in the
\* caller's lists.
BuildInstructions ==
    /\ call_pc = "instructions"
    /\ instructions' =
          [k \in 1..Len(placing_planes) |->
              [picking_plane |->
                   list_elem_w_index_wrap([p \in 1..Len(picking_planes) |-> p], k - 1),
               placing_plane |-> k,
               push_conf |-> plane_push_conf(args.push_conf, k - 1)]]
    /\ call_pc' = UnitPc(0)
    /\ UNCHANGED << runvars, sockets, stdout, args, result, picking_planes, placing_planes, script, unit >>

\* clay_shooting.py:199-207: move the picking frame by the calibration, pick,
\* travel.
PickClay ==
    /\ call_pc = "pick"
    /\ LET ref == instructions[unit + 1].picking_plane
           picking_plane == Translate(picking_planes[ref], WorldZ(args.z_calib_picking))
       IN  /\ picking_planes' = [picking_planes EXCEPT ![ref] = picking_plane]
           /\ script' = script
                \o _picking_moves(picking_plane, args.entry_exit_offset,
                                  args.picking_rotation, args.vertical_offset_bool)
                \o _safe_travel_plane_moves(args.safe_travel_planes, FALSE).script
    /\ call_pc' = "place"
    /\ UNCHANGED << runvars, sockets, stdout, args, result, placing_planes, instructions, unit >>

\* clay_shooting.py:211-222: go to the second safe position, move the placing
\* frame by the calibration, shoot, log, go back to the safe positions.
PlaceClay ==
    /\ call_pc = "place"
    /\ LET ref == instructions[unit + 1].placing_plane
           placing_plane == Translate(placing_planes[ref], WorldZ(args.z_calib_placing))
       IN  /\ placing_planes' = [placing_planes EXCEPT ![ref] = placing_plane]
           /\ script' = script
                \o move_j(safe_pos_2, ROBOT_ACCEL, ROBOT_SAFE_SPEED)
                \o _shooting_moves(placing_plane, args.entry_exit_offset,
                                   instructions[unit + 1].push_conf,
                                   args.vertical_offset_bool, DefaultSleep)
                \o UR_log(unit + args.placing_index)
                \o move_j(safe_pos_2, ROBOT_ACCEL, ROBOT_SAFE_SPEED)
                \o move_j(safe_pos_1, ROBOT_ACCEL, ROBOT_SAFE_SPEED)
    /\ unit' = unit + 1
    /\ call_pc' = UnitPc(unit + 1)
    /\ UNCHANGED << runvars, sockets, stdout, args, result, picking_planes, instructions >>

\* The text of a script: one line for each command.
RECURSIVE Rendered(_)
Rendered(s) ==
    IF s = << >> THEN << >> ELSE << ToString(Head(s)), NL >> \o Rendered(Tail(s))

\* A text handed where a list of texts is expected: its characters.
Characters(text) == [k \in 1..Len(text) |-> << text[k] >>]

\* clay_shooting.py:224-229
Finish ==
    /\ call_pc = "finish"
    /\ result' = [program |-> concatenate_script(Characters(Rendered(script))),
                  viz_planes |-> None]
    /\ call_pc' = "returned"
    /\ UNCHANGED << runvars, sockets, stdout, args, picking_planes, placing_planes, instructions,
                    script, unit >>

ShootingNext ==
    \/ Preamble
    \/ ValidatePushConf
    \/ BuildInstructions
    \/ PickClay
    \/ PlaceClay
    \/ Finish

ShootingSpec == ShootingInit /\ [][ShootingNext]_vars

----
\* ChannelSpec: send_script and listen_to_robot of comm.py, step by step.
\* A program is known by its length; a socket is a record of what was done on
\* it; the peer and the network choose whether a connect, a send or a recv
\* succeeds.

\* Most calls made one after the other.
MaxCalls == 2

\* comm.py:84: 2 << 18
max_size == 524288

\* comm.py:73
SendPort == 30002

\* comm.py:158
ListenPort == 30003

\* comm.py:77: settimeout(2), in milliseconds
SendTimeout == 2000

\* comm.py:182: settimeout(.1), in milliseconds
ReadTimeout == 100

\* A function that returns nothing returns this.
NoValue == [none |-> TRUE]

\* How a call ended.
Returns(value) == [outcome |-> "returned", value |-> value]
Raises(error) == [outcome |-> "raised", error |-> error]

\* The programs handed to send_script.
Programs == { [len |-> n] : n \in { 1, max_size, max_size + 1 } }

\* What one recv(1024) can deliver: nothing (the peer closed), less than a
\* frame, a frame, a full read.
RecvData == { Pattern(n) : n \in { 0, FrameEnd - 1, FrameEnd, RecvSize } }

ChannelArgs ==
    [fn : {"send_script"}, script_to_send : Programs, robot_id : {1},
     offline_simulation : BOOLEAN]
    \cup
    [fn : {"listen_to_robot"}, robot_id : {1}, offline_simulation : BOOLEAN]

ChannelInit ==
    /\ RunIdle
    /\ call_pc = "start"
    /\ args \in ChannelArgs
    /\ result = << >>
    /\ picking_planes = << >>
    /\ placing_planes = << >>
    /\ instructions = << >>
    /\ script = << >>
    /\ unit = 0
    /\ sockets = << >>
    /\ stdout = << >>

\* socket.socket(socket.AF_INET, socket.SOCK_STREAM) followed by settimeout.
Socket(host, port, timeout) ==
    [host |-> host, port |-> port, timeout |-> timeout, connected |-> FALSE,
     closed |-> FALSE, sent |-> << >>, received |-> << >>]

\* The socket of the running call.
sock == sockets[Len(sockets)]

\* The running call's socket becomes sock.
SetSocket(new) == sockets' = [sockets EXCEPT ![Len(sockets)] = new]

\* comm.py:73-77
SendOpen ==
    /\ args.fn = "send_script"
    /\ call_pc = "start"
    /\ LET HOST == get_ip_ur(args.robot_id, args.offline_simulation)
       IN  /\ stdout' = Append(stdout, HOST)
           /\ sockets' = Append(sockets, Socket(HOST, SendPort, SendTimeout))
    /\ call_pc' = "connect"
    /\ UNCHANGED << runvars, args, result, picking_planes, placing_planes, instructions,
                    script, unit >>

\* comm.py:81: print("Cannot connect to ", HOST, PORT).  The module does not
\* import print_function: Python 2 prints the tuple of the three values,
\* Python 3 prints the values with a space between them.
SendConnectFailed(host, port) ==
    { << "('Cannot connect to ', '" >> \o host \o << "', " >> \o Str(port) \o << ")" >>,
      << "Cannot connect to ", " " >> \o host \o << " " >> \o Str(port) }

\* comm.py:188: print('Cannot connect to {}, {}'.format(HOST, PORT))
ListenConnectFailed(host, port) ==
    << "Cannot connect to " >> \o host \o << ", " >> \o Str(port)

\* comm.py:78-81: a failed connect is printed and nothing else.
SendConnect ==
    /\ args.fn = "send_script"
    /\ call_pc = "connect"
    /\ \/ /\ SetSocket([sock EXCEPT !.connected = TRUE])
          /\ UNCHANGED stdout
       \/ /\ \E line \in SendConnectFailed(sock.host, sock.port) :
                stdout' = Append(stdout, line)
          /\ UNCHANGED sockets
    /\ call_pc' = "check"
    /\ UNCHANGED << runvars, args, result, picking_planes, placing_planes, instructions,
                    script, unit >>

\* Mutant of SendCheckSize: a program of exactly max_size is refused too.
SendCheckSize_Inclusive ==
    /\ args.fn = "send_script"
    /\ call_pc = "check"
    /\ SetSocket([sock EXCEPT !.timeout = None])
    /\ LET n == args.script_to_send.len
       IN  IF n >= max_size
           THEN /\ result' = Raises("Program too long")
                /\ call_pc' = "raised"
           ELSE /\ call_pc' = "send"
                /\ UNCHANGED result
    /\ UNCHANGED << runvars, stdout, args, picking_planes, placing_planes, instructions,
                    script, unit >>

\* comm.py:83-87
SendCheckSize ==
    /\ args.fn = "send_script"
    /\ call_pc = "check"
    /\ SetSocket([sock EXCEPT !.timeout = None])
    /\ LET n == args.script_to_send.len
       IN  IF n > max_size
           THEN /\ result' = Raises("Program too long")
                /\ call_pc' = "raised"
           ELSE /\ call_pc' = "send"
                /\ UNCHANGED result
    /\ UNCHANGED << runvars, stdout, args, picking_planes, placing_planes, instructions,
                    script, unit >>

\* What s.send(program) can do: the whole program or a part of it is
\* transmitted, or the send fails.  A socket whose connect() raised is not
\* bound to fail: a connect that timed out goes on in the background and can
\* be established by the time of the send.
SendOutcomes == { "all", "part", "failed" }

\* comm.py:89-92: the program is handed to the socket; a failed send is printed
\* and nothing else.
SendSend ==
    /\ args.fn = "send_script"
    /\ call_pc = "send"
    /\ \E outcome \in SendOutcomes :
         /\ SetSocket([sock EXCEPT !.sent = Append(@, [program |-> args.script_to_send,
                                                      outcome |-> outcome])])
         /\ stdout' = IF outcome = "failed" THEN Append(stdout, << "failed to send" >>) ELSE stdout
    /\ call_pc' = "close"
    /\ UNCHANGED << runvars, args, result, picking_planes, placing_planes, instructions,
                    script, unit >>

\* comm.py:93
SendClose ==
    /\ args.fn = "send_script"
    /\ call_pc = "close"
    /\ SetSocket([sock EXCEPT !.closed = TRUE])
    /\ result' = Returns(NoValue)
    /\ call_pc' = "returned"
    /\ UNCHANGED << runvars, stdout, args, picking_planes, placing_planes, instructions,
                    script, unit >>

\* comm.py:158-168, 181-182
ListenOpen ==
    /\ args.fn = "listen_to_robot"
    /\ call_pc = "start"
    /\ LET HOST == get_ip_ur(args.robot_id, args.offline_simulation)
       IN  /\ stdout' = Append(stdout, HOST)
           /\ sockets' = Append(sockets, Socket(HOST, ListenPort, ReadTimeout))
    /\ call_pc' = "connect"
    /\ UNCHANGED << runvars, args, result, picking_planes, placing_planes, instructions,
                    script, unit >>

\* comm.py:183-188 (the traceback goes to the error stream)
ListenConnect ==
    /\ args.fn = "listen_to_robot"
    /\ call_pc = "connect"
    /\ \/ /\ SetSocket([sock EXCEPT !.connected = TRUE])
          /\ stdout' = Append(stdout, << "connected" >>)
       \/ /\ stdout' = Append(stdout, ListenConnectFailed(sock.host, sock.port))
          /\ UNCHANGED sockets
    /\ call_pc' = "recv"
    /\ UNCHANGED << runvars, args, result, picking_planes, placing_planes, instructions,
                    script, unit >>

\* The exceptions s.recv(1024) can raise: a socket error (the socket is not
\* connected, the peer reset the connection), or the timeout when nothing
\* arrives in time.
RecvErrors == { "socket.error", "socket.timeout" }

\* comm.py:190: recv stands outside any try, so its exception leaves read
\* before the socket is closed; otherwise it returns what arrived.  After a
\* connect that was refused that is nothing (b''); after a connect that timed
\* out the handshake can complete in the background and data arrive, so a
\* socket whose connect raised can deliver whatever a connected one can.
ListenRecv ==
    /\ args.fn = "listen_to_robot"
    /\ call_pc = "recv"
    /\ \/ \E error \in RecvErrors :
            /\ result' = Raises(error)
            /\ call_pc' = "raised"
            /\ UNCHANGED sockets
       \/ \E data \in RecvData :
            /\ SetSocket([sock EXCEPT !.received = data])
            /\ call_pc' = "close"
            /\ UNCHANGED result
    /\ UNCHANGED << runvars, stdout, args, picking_planes, placing_planes, instructions,
                    script, unit >>

\* comm.py:191-192
ListenClose ==
    /\ args.fn = "listen_to_robot"
    /\ call_pc = "close"
    /\ SetSocket([sock EXCEPT !.closed = TRUE])
    /\ call_pc' = "decode"
    /\ UNCHANGED << runvars, stdout, args, result, picking_planes, placing_planes,
                    instructions, script, unit >>

\* comm.py:169-170: the error of get_messages is not caught.
ListenDecode ==
    /\ args.fn = "listen_to_robot"
    /\ call_pc = "decode"
    /\ LET decoded == get_messages(sock.received, EmptyChunks)
       IN  IF decoded.raised
           THEN /\ result' = Raises("struct.error")
                /\ call_pc' = "raised"
           ELSE /\ result' = Returns(decoded.chunks)
                /\ call_pc' = "returned"
    /\ UNCHANGED << runvars, sockets, stdout, args, picking_planes, placing_planes,
                    instructions, script, unit >>

\* The caller, after a call that returned or raised, makes another call.
NextCall ==
    /\ call_pc \in { "returned", "raised" }
    /\ Len(sockets) < MaxCalls
    /\ args' \in ChannelArgs
    /\ result' = << >>
    /\ call_pc' = "start"
    /\ UNCHANGED << runvars, sockets, stdout, picking_planes, placing_planes, instructions,
                    script, unit >>

ChannelNext ==
    \/ SendOpen
    \/ SendConnect
    \/ SendCheckSize
    \/ SendSend
    \/ SendClose
    \/ ListenOpen
    \/ ListenConnect
    \/ ListenRecv
    \/ ListenClose
    \/ ListenDecode
    \/ NextCall

ChannelSpec == ChannelInit /\ [][ChannelNext]_vars

----
\* Reading the log.

\* Positions in history of the sends of op ("pick" | "place") in iteration j.
Sends(op, j) ==
    { k \in DOMAIN history :
        history[k].ev = "send" /\ history[k].op = op /\ history[k].idx = j }

\* Positions in history of the awaits of iteration j.
Awaits(j) == { k \in DOMAIN history : history[k].ev = "await" /\ history[k].idx = j }

\* Positions in history of the awaits of the place futures of iteration j.
PlaceAwaits(j) ==
    { k \in Awaits(j) : history[k].op = "place" \/ history[k].op \in Range(PlaceKeys) }

\* Positions in history of the awaits of the pick futures of iteration j.
PickAwaits(j) == Awaits(j) \ PlaceAwaits(j)

\* Positions in history of the assignments to field of the bullet at pos.
Assigns(field, pos) ==
    { k \in DOMAIN history :
        history[k].ev = "assign" /\ history[k].op = field /\ history[k].pos = pos }

\* Assignments of a timestamp to placed (neither None nor the temporary 1).
Stamps(pos) ==
    { k \in Assigns("placed", pos) : history[k].val \notin { None, TempPlaced } }

\* Assignments of a value other than None.
ValueAssigns(field, pos) == { k \in Assigns(field, pos) : history[k].val # None }

\* Successful writes of the in-progress file.
OkWrites == { k \in DOMAIN history : history[k].ev = "write" /\ history[k].op = "ok" }

\* Failed writes of the in-progress file.
FailedWrites == { k \in DOMAIN history : history[k].ev = "write" /\ history[k].op # "ok" }

\* The iteration (0-based) in which the bullet at pos is handled: its index
\* in to_place for main, the index of its chunk for abb_run.
IterationOf(pos) ==
    LET j == CHOOSE j \in 1..Len(to_place) : to_place[j] = pos
    IN  IF runner = "main" THEN j - 1 ELSE (j - 1) \div ChunkSize

\* The file holds a ledger whose bullet at pos has the placed and cycle_time
\* the bullet has in memory.
Reloads(file, pos) ==
    /\ load_bullets(file).ok
    /\ load_bullets(file).bullets[pos].placed = clay_bullets[pos].placed
    /\ load_bullets(file).bullets[pos].cycle_time = clay_bullets[pos].cycle_time

\* The placed values of a ledger that are not None, in ledger order.
PlacedValues(bullets) ==
    LET order == SortedSeq(maybe_placed(bullets))
    IN  [k \in 1..Len(order) |-> bullets[order[k]].placed]

NonDecreasing(seq) == \A a, b \in 1..Len(seq) : a <= b => seq[a] <= seq[b]

\* The ledgers that are on disk.
PersistedLedgers ==
    { f.bullets : f \in { g \in { in_progress_json, done_json } : g.state = "bullets" } }

----
\* C1 (as stated): in main, once a unit is Placed, the whole ledger is
\* persisted before any command for the next unit is issued, and reloading
\* the in-progress file yields the unit's placed and cycle_time.  Stated for
\* runs that write the progress file: whenever the pick of unit j+1 has been
\* sent, the in-progress file reloads to the in-memory values of unit j.
C1_PersistedBeforeNextCommand ==
    (runner = "main" /\ ~skip_progress_file) =>
        \A j \in 1..(Len(to_place) - 1) :
            Sends("pick", j) # {} => Reloads(in_progress_json, to_place[j])

----
----
\* The run is over: the shutdown procedure has been left, normally or by the
\* exception of a rename that raised.
RunEnded ==
    \/ pc = "done"
    \/ /\ pc = "raised" /\ history # << >>
       /\ history[Len(history)].ev = "rename"

\* C3 (as stated): at the end of a run the in-progress file is renamed to
\* the done file and rewritten if and only if every bullet of the whole
\* ledger has placed set; otherwise the in-progress file stays and no done
\* file is created.  Stated for runs that write the progress file.
C3_PromotedIffAllPlaced ==
    (RunEnded /\ ~skip_progress_file) =>
        /\ AllPlaced(clay_bullets) <=>
              (done_json = DumpBullets(clay_bullets) /\ in_progress_json = Absent)
        /\ ~AllPlaced(clay_bullets) =>
              /\ done_json = Absent
              /\ \A k \in DOMAIN history : history[k].ev # "rename"

----
\* C4: with the answer "Skip all bullet marked as placed in JSON file." the
\* work list holds exactly the bullets whose placed is None, in ledger
\* order; when no bullet is placed (no question is asked) the work list is
\* the whole ledger.
C4_SkipYieldsUnplacedInOrder ==
    pc = "confirm" =>
        /\ answers.option = "skip" =>
              /\ Range(to_place) =
                    { k \in 1..Len(clay_bullets) : clay_bullets[k].placed = None }
              /\ \A a, b \in 1..Len(to_place) : a < b => to_place[a] < to_place[b]
        /\ answers.option = "not asked" =>
              /\ Len(to_place) = Len(clay_bullets)
              /\ \A k \in 1..Len(to_place) : to_place[k] = k

\* C4 witness: three of five bullets are placed, among them the last one,
\* and the skip answer left the two others, in order.
C4_Witness ==
    /\ pc = "confirm" /\ answers.option = "skip"
    /\ Len(clay_bullets) = 5
    /\ Cardinality(maybe_placed(clay_bullets)) = 3
    /\ clay_bullets[5].placed # None
    /\ clay_bullets[1].placed = None
    /\ Len(to_place) = 2
    /\ to_place[1] < to_place[2]

----
\* C5 (as stated): in every persisted ledger, under any resume policy, the
\* placed values that are not None are non-decreasing in ledger order, and no
\* bullet's placed is set more than once within a run.
C5_PlacedMonotoneSetOnce ==
    /\ \A ledger \in PersistedLedgers : NonDecreasing(PlacedValues(ledger))
    /\ \A pos \in Range(to_place) : Cardinality(ValueAssigns("placed", pos)) <= 1

----
\* C6 (as stated): when a write of the in-progress file fails, the failure is
\* not swallowed, no command for a further unit is sent, and the content of
\* the previous successful write is still in the file.
C6_FailedWriteKeepsLedger ==
    \A k \in FailedWrites :
        /\ pc = "raised"
        /\ \A m \in DOMAIN history : history[m].ev = "send" => m < k
        /\ last_good # Absent => in_progress_json = last_good

----
\* C7 (as stated): in every iteration of both loops the pick is sent before
\* the place and both are sent before any future of the iteration is awaited.
C7_AllIssuedBeforeAwait ==
    \A j \in 0..Len(to_place) :
        \A a \in Awaits(j) :
            \E p \in Sends("pick", j), q \in Sends("place", j) : p < q /\ q < a

\* C7 (amended): in both loops the pick of an iteration is sent before its
\* place.  In main the place is sent before any future of the unit is
\* awaited.  In abb_run every pick future of the chunk is awaited before the
\* place of the chunk is sent, and the place futures are all issued before
\* any of them is awaited.
C7_PickBeforePlace ==
    \A j \in 0..Len(to_place) :
        /\ \A q \in Sends("place", j) : \E p \in Sends("pick", j) : p < q
        /\ \A a \in Awaits(j) : \E p \in Sends("pick", j) : p < a
        /\ runner = "main" =>
              \A a \in Awaits(j) : \E q \in Sends("place", j) : q < a
        /\ runner = "abb_run" =>
              /\ \A q \in Sends("place", j) :
                    Cardinality({ a \in PickAwaits(j) : a < q }) = Len(PickKeys)
              /\ \A a \in PlaceAwaits(j) : \E q \in Sends("place", j) : q < a

\* C7 witness: abb_run has sent the place of its second chunk after awaiting
\* the four pick futures of that chunk.
C7_Witness ==
    /\ runner = "abb_run" /\ pc = "await places" /\ i = 1
    /\ Sends("place", 1) # {}
    /\ Cardinality(PickAwaits(1)) = Len(PickKeys)
    /\ Len(pending) = Len(PlaceKeys)

----
\* Futures of iteration j issued and not awaited.
Outstanding(j) ==
    Len(PickKeys) * Cardinality(Sends("pick", j))
        + Len(PlaceKeys) * Cardinality(Sends("place", j))
        - Cardinality(Awaits(j))

\* C8: in abb_run every pick and place future of chunk k has been awaited
\* before the in-progress file is written for chunk k and before any command
\* of chunk k+1 is sent; futures of two chunks are never outstanding together.
C8_ChunkResolvedBeforeNext ==
    runner = "abb_run" =>
        LET sends == { k \in DOMAIN history : history[k].ev = "send" }
            awaits == { k \in DOMAIN history : history[k].ev = "await" }
            writes == { k \in DOMAIN history : history[k].ev = "write" }
            all == Len(PickKeys) + Len(PlaceKeys)
            awaited(j, before) ==
                Cardinality({ a \in awaits : history[a].idx = j /\ a < before })
            issued(j) ==
                Cardinality({ k \in sends : history[k].idx = j /\ history[k].op = "pick" })
                    * Len(PickKeys)
                + Cardinality({ k \in sends : history[k].idx = j /\ history[k].op = "place" })
                    * Len(PlaceKeys)
            outstanding == { j \in 0..Len(to_place) :
                               issued(j) > awaited(j, Len(history) + 1) }
        IN  /\ \A w \in writes : awaited(history[w].idx, w) = all
            /\ \A p \in sends :
                  history[p].idx > 0 =>
                      /\ awaited(history[p].idx - 1, p) = all
                      /\ \E w \in writes :
                            history[w].idx = history[p].idx - 1 /\ w < p
            /\ Cardinality(outstanding) <= 1
            /\ outstanding \subseteq { i }
            /\ Len(pending) = issued(i) - awaited(i, Len(history) + 1)

\* C8 witness: the second chunk has its place futures outstanding while the
\* first chunk is resolved and written.
C8_Witness ==
    /\ runner = "abb_run" /\ i = 1
    /\ Outstanding(1) > 0 /\ Outstanding(0) = 0
    /\ Sends("place", 1) # {}
    /\ \E w \in OkWrites : history[w].idx = 0

----
\* C9 (as stated): in abb_run every unit of the work list ends up Placed,
\* the units of a trailing partial chunk included, and the ledger is
\* promoted to done when all are placed.
C9_WorkListPlaced ==
    (runner = "abb_run" /\ pc = "done") =>
        /\ \A pos \in Range(to_place) : clay_bullets[pos].placed # None
        /\ AllPlaced(clay_bullets) => done_json = DumpBullets(clay_bullets)

----
\* C10 (as stated): in abb_run, after each completed chunk the in-progress
\* file holds the entire ledger with the units of the completed chunks
\* placed, so that a later run loads exactly that ledger from it.
C10_ProgressFileHoldsLedger ==
    (runner = "abb_run" /\ history # << >>
        /\ history[Len(history)].ev = "write" /\ history[Len(history)].op = "ok") =>
        /\ load_bullets(in_progress_json).ok
        /\ load_bullets(in_progress_json).bullets = clay_bullets

----
\* C11 (as stated): whenever a unit is Placed at the end of a run (its placed
\* is a timestamp assigned in this run), its cycle_time is set, and it is the
\* sum of the duration its pick future returned and the duration its place
\* future returned; in main and in abb_run alike.  The readings of abb_run's
\* futures are opaque in the model, so for abb_run the sum is stated as far
\* as the model carries it: the cycle_time is set.
C11_CycleTimeIsPickPlusPlace ==
    pc = "done" =>
        \A pos \in Range(to_place) :
            Stamps(pos) # {} =>
                /\ clay_bullets[pos].cycle_time # None
                /\ runner = "main" =>
                      \E a \in PickAwaits(IterationOf(pos)), b \in PlaceAwaits(IterationOf(pos)) :
                          clay_bullets[pos].cycle_time = history[a].val + history[b].val

----
\* Reading a script.

\* Positions of the commands that switch the actuator to value.
ActuatorAt(s, value) ==
    { k \in 1..Len(s) : s[k].cmd = "set_digital_out" /\ s[k].io = ACTUATOR_IO
                          /\ s[k].value = value }

\* The command is a linear move to plane.
IsMoveL(c, plane) == c.cmd = "movel" /\ c.target = plane

\* A generator of CallSpec has returned.
Returned(fn) == call_pc = "returned" /\ args.fn = fn

----
\* C12: for every input, pushing enabled or not and any push count n >= 0,
\* the script _shooting_moves returns holds exactly one actuator-ON command
\* and exactly one actuator-OFF command, and the ON precedes the OFF.
C12_OneOnThenOneOff ==
    Returned("_shooting_moves") =>
        /\ Cardinality(ActuatorAt(result, TRUE)) = 1
        /\ Cardinality(ActuatorAt(result, FALSE)) = 1
        /\ \A a \in ActuatorAt(result, TRUE), b \in ActuatorAt(result, FALSE) : a < b

\* _shooting_moves has returned a script with MaxPushes pushes in it.
C12_Witness ==
    /\ Returned("_shooting_moves")
    /\ args.push_conf.pushing /\ args.push_conf.n_pushes = MaxPushes
    /\ Len(result) = 6 + MaxPushes

----
\* C13: _shooting_moves emits, in this order and nothing else: a linear move
\* to the entry offset, a linear move to the frame, actuator ON, a sleep of
\* the dwell time, the push moves (if and only if pushing is enabled), a
\* linear move to the exit offset, actuator OFF.
C13_ShootingOrder ==
    Returned("_shooting_moves") =>
        LET off == _get_offset_plane(args.plane, args.entry_exit_offset,
                                     args.vertical_offset_bool)
            pushes == IF args.push_conf.pushing
                      THEN _push_moves(args.plane, args.push_conf, args.vertical_offset_bool)
                      ELSE << >>
            n == Len(pushes)
        IN  /\ Len(result) = 6 + n
            /\ IsMoveL(result[1], off.entry)
            /\ IsMoveL(result[2], args.plane)
            /\ ActuatorAt(result, TRUE) = {3}
            /\ result[4].cmd = "sleep" /\ result[4].t = args.sleep
            /\ \A k \in 1..n : result[4 + k] = pushes[k]
            /\ IsMoveL(result[5 + n], off.exit)
            /\ ActuatorAt(result, FALSE) = {6 + n}
            /\ args.push_conf.pushing => n = args.push_conf.n_pushes

\* _shooting_moves has returned for a configuration that asks pushes but has
\* pushing disabled: the exit move follows the sleep.
C13_Witness ==
    /\ Returned("_shooting_moves")
    /\ ~args.push_conf.pushing /\ args.push_conf.n_pushes > 0
    /\ Len(result) = 6 /\ result[5].cmd = "movel"

----
\* C14: for every push count n >= 0, _push_moves emits exactly n linear moves
\* and nothing else, and the k-th move (k = 1..n) targets the single retracted
\* offset plane rotated about the contact frame's origin by the cumulative
\* angle k * angle_step; with n = 0 the result is empty.
C14_PushMovesCumulative ==
    Returned("_push_moves") =>
        LET conf == args.push_conf
            retract == IF args.vertical_offset_bool
                       THEN [op |-> "translate", dir |-> "z", k |-> conf.push_offsets]
                       ELSE [op |-> "translate", dir |-> "normal", k |-> -conf.push_offsets]
        IN  /\ Len(result) = conf.n_pushes
            /\ \A k \in 1..Len(result) :
                 /\ result[k].cmd = "movel"
                 /\ result[k].target.base = args.plane.base
                 /\ result[k].target.ops =
                        args.plane.ops \o
                        << retract,
                           [op |-> "rotate", angle |-> Radians(k * conf.angle_steps),
                            axis |-> conf.push_rotation_axis,
                            center |-> Origin(args.plane)] >>

\* _push_moves has returned MaxPushes moves whose angles differ.
C14_Witness ==
    /\ Returned("_push_moves")
    /\ args.push_conf.n_pushes = MaxPushes
    /\ Len(result) = MaxPushes
    /\ result[1].target # result[MaxPushes].target

----
\* C15: _picking_moves emits only linear moves and no actuator IO, in the
\* order entry offset, frame, rotated frame, exit offset, the rotated-frame
\* move being present if and only if rotation > 0 (4 moves when rotation > 0,
\* 3 otherwise).
C15_PickingMoves ==
    Returned("_picking_moves") =>
        LET off == _get_offset_plane(args.plane, args.entry_exit_offset,
                                     args.vertical_offset_bool)
            rotated == [k \in 1..Len(result) |->
                            /\ Len(result[k].target.ops) = 1
                            /\ result[k].target.ops[1].op = "rotate"
                            /\ result[k].target.ops[1].angle = Radians(args.rotation)
                            /\ result[k].target.ops[1].center = Origin(args.plane)]
        IN  /\ \A k \in 1..Len(result) : result[k].cmd = "movel"
            /\ Len(result) = (IF args.rotation > 0 THEN 4 ELSE 3)
            /\ IsMoveL(result[1], off.entry)
            /\ IsMoveL(result[2], args.plane)
            /\ IsMoveL(result[Len(result)], off.exit)
            /\ args.rotation > 0 => rotated[3]
            /\ \A k \in 1..Len(result) : rotated[k] => (k = 3 /\ args.rotation > 0)

\* _picking_moves has returned four moves for a positive rotation.
C15_Witness ==
    /\ Returned("_picking_moves")
    /\ args.rotation > 0
    /\ Len(result) = 4

----
\* C16: _safe_travel_plane_moves emits exactly one joint-space move per input
\* frame, in input order when reverse is false and in exactly reversed order
\* when reverse is true, each at the fixed safe speed and not at the process
\* speed, and leaves the caller's list of frames unchanged.
C16_SafeTravelMoves ==
    Returned("_safe_travel_plane_moves") =>
        LET n == Len(args.planes)
        IN  /\ Len(result.script) = n
            /\ \A k \in 1..n :
                 /\ result.script[k].cmd = "movej_pose"
                 /\ result.script[k].target =
                        args.planes[IF args.reverse THEN n + 1 - k ELSE k]
                 /\ result.script[k].speed = ROBOT_SAFE_SPEED
                 /\ result.script[k].speed # ROBOT_L_SPEED
            /\ result.planes = args.planes

\* _safe_travel_plane_moves has returned the moves of two or more frames in
\* reverse.
C16_Witness ==
    /\ Returned("_safe_travel_plane_moves")
    /\ args.reverse /\ Len(args.planes) >= 2
    /\ result.script[1].target = args.planes[Len(args.planes)]

----
\* Reading a program.

\* The text between the procedure declaration and the procedure end.
Body(program) ==
    SubSeq(program, Len(ProcedureDeclaration) + 1,
           Len(program) - Len(ProcedureEnd) - Len(ProcedureInvocation))

\* The lines of the body, each without the newline that ends it.
BodyLines(program) ==
    LET pieces == Split(Body(program))
    IN  SubSeq(pieces, 1, Len(pieces) - 1)

\* The lines joined by newlines.
RECURSIVE Join(_)
Join(lines) ==
    IF lines = << >>
    THEN << >>
    ELSE IF Len(lines) = 1
         THEN lines[1]
         ELSE Head(lines) \o << NL >> \o Join(Tail(lines))

----
\* C19 (as stated): concatenate_script applied to an empty command list
\* returns a program that consists only of the procedure declaration, the
\* procedure end and the invocation, with no body line between the
\* declaration and the end.
C19_EmptyListHasNoBody ==
    (Returned("concatenate_script") /\ args.list_ur_commands = << >>) =>
        result = ProcedureDeclaration \o ProcedureEnd \o ProcedureInvocation

----
\* C20: for every list of command strings, concatenate_script returns the
\* procedure declaration, then the lines of the commands concatenated in list
\* order, each prefixed by exactly one tab and in unchanged relative order,
\* then the procedure end, then the invocation; no command line is dropped,
\* duplicated or reordered.  The lines of a text are the pieces between its
\* newlines: taking the tab off every body line and joining the lines by
\* newlines gives back the concatenated commands.
C20_CommandLinesIndentedInOrder ==
    Returned("concatenate_script") =>
        LET n == Len(result)
            tail == ProcedureEnd \o ProcedureInvocation
            lines == BodyLines(result)
        IN  /\ n >= Len(ProcedureDeclaration) + Len(tail)
            /\ SubSeq(result, 1, Len(ProcedureDeclaration)) = ProcedureDeclaration
            /\ SubSeq(result, n - Len(tail) + 1, n) = tail
            /\ Body(result) # << >> => Body(result)[Len(Body(result))] = NL
            /\ \A k \in 1..Len(lines) :
                 /\ lines[k] # << >> /\ lines[k][1] = TAB
                 /\ \A j \in 2..Len(lines[k]) : lines[k][j] # TAB
            /\ Join([k \in 1..Len(lines) |-> Tail(lines[k])])
                   = Combined(args.list_ur_commands)

\* concatenate_script has returned for MaxCmds commands whose first does not
\* end its last line, so that the second continues it, and whose text has a
\* newline.
C20_Witness ==
    /\ Returned("concatenate_script")
    /\ Len(args.list_ur_commands) = MaxCmds
    /\ args.list_ur_commands[1] # << >>
    /\ args.list_ur_commands[1][Len(args.list_ur_commands[1])] # NL
    /\ args.list_ur_commands[2] # << >>
    /\ Len(BodyLines(result)) >= 2

----
\* Reading a call of clay_shooting.

\* Some list of push_conf fits neither the placing frames nor 1.
Mismatched ==
    \E key \in PushKeys :
        /\ ~args.push_conf[key].none
        /\ Len(args.push_conf[key].list) \notin { 1, Len(args.placing_planes) }

\* clay_shooting is past the check of the lists.
PastValidation == call_pc \in { "instructions", "pick", "place", "finish", "returned" }

\* clay_shooting has built its instructions.
InstructionsBuilt == call_pc \in { "pick", "place", "finish", "returned" }

----
\* C17 (as stated): clay_shooting raises a configuration error whenever some
\* non-None push_conf list has a length that is neither 1 nor the number of
\* placing planes, and it does so before any command has been generated (no
\* partial sequence exists when the error is raised); for lists of length 1
\* or of the length of the placing planes it does not raise.
C17_RaisesBeforeAnyCommand ==
    /\ call_pc = "raised" => (Mismatched /\ script = << >>)
    /\ PastValidation => ~Mismatched

----
\* C18: when clay_shooting builds the per-unit push configuration, a list of
\* length 1 is broadcast (every unit gets its single element), a list as long
\* as the placing planes gives unit i its i-th element, and a None value stays
\* None for every unit; exactly one instruction is built per placing plane,
\* in placing-plane order.
C18_PerUnitPushConf ==
    InstructionsBuilt =>
        /\ Len(instructions) = Len(args.placing_planes)
        /\ \A k \in 1..Len(instructions) :
             /\ instructions[k].placing_plane = k
             /\ \A key \in PushKeys :
                  LET value == args.push_conf[key]
                      got == instructions[k].push_conf[key]
                  IN  IF value.none
                      THEN got = None
                      ELSE IF Len(value.list) = 1
                           THEN got = value.list[1]
                           ELSE got = value.list[k]

\* The instructions of MaxPlacing units are built from a list with one entry
\* for each unit, a list of one entry and a None.
C18_Witness ==
    /\ InstructionsBuilt
    /\ Len(instructions) = MaxPlacing
    /\ ~args.push_conf.n_pushes.none
    /\ Len(args.push_conf.n_pushes.list) = MaxPlacing
    /\ instructions[1].push_conf.n_pushes # instructions[MaxPlacing].push_conf.n_pushes
    /\ Len(args.push_conf.pushing.list) = 1
    /\ args.push_conf.push_rotation_axis.none
    /\ instructions[MaxPlacing].push_conf.push_rotation_axis = None

----
\* The command and feedback channels (ChannelSpec).

\* The running call is call fn and it has returned or raised.
Ended(fn) == args.fn = fn /\ call_pc \in { "returned", "raised" }

\* C21: send_script never hands to the socket a program longer than
\* max_size: for such a program it raises and nothing is sent; a program of at
\* most max_size bytes (max_size included) is handed to the socket once,
\* as it was given.
C21_CapOnSentPrograms ==
    /\ \A k \in 1..Len(sockets) :
         \A j \in 1..Len(sockets[k].sent) : sockets[k].sent[j].program.len <= max_size
    /\ Ended("send_script") =>
         IF args.script_to_send.len > max_size
         THEN /\ result = Raises("Program too long")
              /\ sock.sent = << >>
         ELSE /\ call_pc = "returned"
              /\ Len(sock.sent) = 1
              /\ sock.sent[1].program = args.script_to_send

\* A second call has handed a program of exactly max_size bytes to its socket,
\* which transmitted it, after a first call whose connect raised and whose
\* program was transmitted all the same.
C21_Witness ==
    /\ Ended("send_script")
    /\ Len(sockets) = 2
    /\ args.script_to_send.len = max_size
    /\ sock.connected
    /\ sock.sent = << [program |-> args.script_to_send, outcome |-> "all"] >>
    /\ ~sockets[1].connected
    /\ Len(sockets[1].sent) = 1
    /\ sockets[1].sent[1].outcome = "all"

\* C22: an oversized program is rejected before any device interaction: the
\* first step of such a call raises, and no socket is created for it.
C22_OversizedRejectedBeforeConnection ==
    [][ ( /\ args.fn = "send_script"
          /\ call_pc = "start"
          /\ args.script_to_send.len > max_size )
        => ( call_pc' = "raised" /\ sockets' = sockets ) ]_vars

\* C23: whenever send_script is not running (it returned, it raised, or the
\* next call is about to start), every socket it opened is closed.
C23_SendSocketsClosed ==
    call_pc \in { "start", "returned", "raised" } =>
        \A k \in 1..Len(sockets) : sockets[k].port = SendPort => sockets[k].closed

\* C24: when the connect of send_script failed (and the program is not
\* oversized), nothing is sent on the socket and the caller does not get the
\* outcome of a successful send.
C24_ConnectFailureReported ==
    ( /\ Ended("send_script")
      /\ args.script_to_send.len <= max_size
      /\ ~sock.connected )
    => ( sock.sent = << >> /\ result # Returns(NoValue) )

\* C25: listen_to_robot never raises: it returns, its socket is closed, and
\* when fewer than FrameEnd bytes were read it returns no telemetry.
C25_ListenNeverRaises ==
    Ended("listen_to_robot") =>
        /\ result.outcome = "returned"
        /\ sock.closed
        /\ Len(sock.received) < FrameEnd => result.value = NoValue

----
\* The telemetry decoder, the host resolution and the offset frames (CallSpec).

\* The 8 bytes of a buffer from offset off (0-based) on, as one big-endian float.
ValueAt(bytes, off) == [be |-> [j \in 1..8 |-> bytes[off + j]]]

\* Six consecutive floats from offset off on.
SixAt(bytes, off) == [e \in 1..6 |-> ValueAt(bytes, off + 8 * (e - 1))]

\* The offsets (0-based) of the bytes inside the five fields.
InFields == (12..59) \cup (252..299) \cup (540..587) \cup (588..635) \cup (740..747)

\* The offsets (0-based) at which a buffer differs from the pattern of its length.
ChangedOffsets(bytes) ==
    { p \in 0..(Len(bytes) - 1) : bytes[p + 1] # Pattern(Len(bytes))[p + 1] }

\* C26: for a buffer of at least FrameEnd bytes get_messages takes
\* target_joints from [12,60), actual_joints from [252,300), forces from
\* [540,588), pose from [588,636), six big-endian 8-byte floats each, and the
\* time from [740,748), one float; only the two joint fields are converted
\* to degrees; a byte changed outside the five ranges changes nothing.
C26_FieldsOfTheFrame ==
    (Returned("get_messages") /\ Len(args.bytes) >= FrameEnd) =>
        /\ ~result.raised
        /\ result.chunks.target_joints = Generator(SixAt(args.bytes, 12))
        /\ result.chunks.actual_joints = Generator(SixAt(args.bytes, 252))
        /\ result.chunks.forces = SixAt(args.bytes, 540)
        /\ result.chunks.pose = SixAt(args.bytes, 588)
        /\ result.chunks.time = << ValueAt(args.bytes, 740) >>
        /\ ChangedOffsets(args.bytes) \cap InFields = {} =>
               result = get_messages(Pattern(Len(args.bytes)), args.chunks_info)

\* A full read whose byte just after the pose field differs from the pattern
\* has been decoded.
C26_Witness ==
    /\ Returned("get_messages")
    /\ Len(args.bytes) = RecvSize
    /\ ChangedOffsets(args.bytes) = { 636 }
    /\ ~result.raised
    /\ result.chunks.forces = SixAt(args.bytes, 540)

\* The digit a character stands for.
DigitValue(c) == CHOOSE d \in 0..9 : Digits[d + 1] = c

\* The number a sequence of digit characters writes in base 10.
RECURSIVE Decimal(_)
Decimal(t) ==
    IF t = << >>
    THEN 0
    ELSE 10 * Decimal(SubSeq(t, 1, Len(t) - 1)) + DigitValue(t[Len(t)])

\* C27: outside simulation mode get_ip_ur returns '192.168.10.' followed by
\* the decimal writing of robot id + 9, so no other robot id gets the same
\* address; in simulation mode it returns 'localhost' whatever the robot id.
C27_HostOfRobot ==
    Returned("get_ip_ur") =>
        IF args.offline_simulation
        THEN result = << "localhost" >>
        ELSE LET number == Tail(result)
             IN  /\ Head(result) = "192.168.10."
                 /\ number # << >>
                 /\ \A k \in 1..Len(number) : \E d \in 0..9 : number[k] = Digits[d + 1]
                 /\ Len(number) > 1 => number[1] # "0"
                 /\ Decimal(number) = args.ur_number + 9
                 /\ \A other \in 0..MaxRobotId :
                        other # args.ur_number => get_ip_ur(other, FALSE) # result

\* Robot 1 has been given the address 192.168.10.10.
C27_Witness ==
    /\ Returned("get_ip_ur")
    /\ ~args.offline_simulation
    /\ args.ur_number = 1
    /\ result = << "192.168.10.", "1", "0" >>

\* plane after one more translation by k along dir.
TranslatedBy(plane, dir, k) ==
    [base |-> plane.base,
     ops |-> plane.ops \o << [op |-> "translate", dir |-> dir, k |-> k] >>]

\* C28: _get_offset_plane leaves the input frame as it was and returns two
\* frames: when vertical, the entry frame is the input moved by dist along
\* (0,0,-1) and the exit frame the input moved by dist along its normal; when
\* not vertical, both are the input moved by dist along its normal.
C28_OffsetPlanes ==
    Returned("_get_offset_plane") =>
        /\ result.initial_plane = args.initial_plane
        /\ result.exit = TranslatedBy(args.initial_plane, "normal", args.dist)
        /\ result.entry = (IF args.vertical_offset_bool
                           THEN TranslatedBy(args.initial_plane, "z", -args.dist)
                           ELSE TranslatedBy(args.initial_plane, "normal", args.dist))

\* A vertical offset of a frame that had been moved before: entry and exit
\* differ and the input still has its one move.
C28_Witness ==
    /\ Returned("_get_offset_plane")
    /\ args.vertical_offset_bool
    /\ Len(args.initial_plane.ops) = 1
    /\ result.entry # result.exit
    /\ result.initial_plane = args.initial_plane

----
\* C29: in the script of clay_shooting every linear move has blend radius 0,
\* except the push moves (the linear moves made while the actuator is out,
\* before the exit move), which all have blend radius BLEND_RADIUS_PUSHING,
\* and that is not 0.

\* Positions of the push moves of a script: linear moves after an actuator-ON
\* with no actuator-OFF in between, followed by another linear move (the
\* last linear move before the OFF is the exit move).
PushPositions(s) ==
    { k \in 1..(Len(s) - 1) :
        /\ s[k].cmd = "movel"
        /\ s[k + 1].cmd = "movel"
        /\ \E a \in ActuatorAt(s, TRUE) :
              a < k /\ ActuatorAt(s, FALSE) \cap (a..k) = {} }

C29_BlendRadius ==
    /\ BLEND_RADIUS_PUSHING # 0
    /\ \A k \in 1..Len(script) :
         script[k].cmd = "movel" =>
            script[k].blend_radius =
                (IF k \in PushPositions(script) THEN BLEND_RADIUS_PUSHING ELSE 0)

\* clay_shooting has returned a script with picking moves, the rotated one
\* included, and with as many push moves as the unit's n_pushes, which is
\* not 0.
C29_Witness ==
    /\ call_pc = "returned"
    /\ ~args.dry_run
    /\ args.picking_rotation > 0
    /\ Len(args.placing_planes) = 1
    /\ args.push_conf.pushing.list[1]
    /\ ~args.push_conf.n_pushes.none
    /\ args.push_conf.n_pushes.list[1] > 0
    /\ Cardinality(PushPositions(script)) = args.push_conf.n_pushes.list[1]
    /\ \E k \in 1..Len(script) : script[k].cmd = "movel" /\ script[k].blend_radius = 0

----
\* C30: crash-resume safety of main.  The run can stop in any state; the
\* in-progress file it leaves is what a resumed run loads.  Once this run has
\* written the file, a unit of the work list whose place future has not been
\* awaited is recorded in the file with placed null, and the work list of a
\* resumed run that skips the placed units holds it.
C30_CrashResumeSafe ==
    (runner = "main" /\ OkWrites # {} /\ load_bullets(in_progress_json).ok) =>
        LET loaded == load_bullets(in_progress_json).bullets
            skip == [option |-> "skip", method |-> "-", n |-> 0, selection |-> {}]
            resumed == setup_fab_data(loaded, skip).to_place
        IN  \A pos \in Range(to_place) :
                PlaceAwaits(IterationOf(pos)) = {} =>
                    /\ loaded[pos].placed = None
                    /\ pos \in Range(resumed)

----
\* C31: in the script of clay_shooting the first IO command switches the
\* actuator off; the actuator is off when a joint move (safe position or
\* travel waypoint) or a pick move is executed; it is on only inside a place,
\* from the command after the contact move up to the command after the exit
\* move; and it is off at the end of the script.

\* Positions of the commands of a script that switch the actuator.
ActuatorIO(s) == ActuatorAt(s, TRUE) \cup ActuatorAt(s, FALSE)

\* The state of the actuator when command k of a script is executed (k may
\* be one past the end).
ActuatorBefore(s, k) ==
    LET ios == { j \in ActuatorIO(s) : j < k }
    IN  IF ios = {}
        THEN "unknown"
        ELSE LET last == CHOOSE j \in ios : \A h \in ios : h <= j
             IN  IF s[last].value THEN "on" ELSE "off"

\* The command is a linear move whose target was made from a frame of the
\* caller's list name.
IsMoveLOf(c, name) == c.cmd = "movel" /\ c.target.base[1] = name

C31_ActuatorDiscipline ==
    call_pc = "returned" =>
        LET ios == ActuatorIO(script)
            first == CHOOSE j \in ios : \A h \in ios : j <= h
        IN  /\ ios # {}
            /\ ~script[first].value
            /\ \A k \in 1..Len(script) :
                 \/ script[k].cmd \in { "movej", "movej_pose" }
                 \/ IsMoveLOf(script[k], "picking")
                 => ActuatorBefore(script, k) = "off"
            /\ \A k \in 1..Len(script) :
                 ActuatorBefore(script, k) = "on" =>
                    \/ script[k].cmd = "sleep"
                    \/ IsMoveLOf(script[k], "placing")
                    \/ k \in ActuatorAt(script, FALSE)
            /\ \A a \in ActuatorAt(script, TRUE) :
                 /\ a > 1
                 /\ IsMoveLOf(script[a - 1], "placing")
                 /\ script[a - 1].target = placing_planes[script[a - 1].target.base[2]]
            /\ \A b \in ActuatorAt(script, FALSE) :
                 ActuatorBefore(script, b) = "on" =>
                    /\ IsMoveLOf(script[b - 1], "placing")
                    /\ script[b - 1].blend_radius = 0
            /\ ActuatorBefore(script, Len(script) + 1) = "off"

\* A script of MaxPlacing units with picking has been returned, the first
\* unit pushing.
C31_Witness ==
    /\ call_pc = "returned"
    /\ ~args.dry_run
    /\ Len(args.placing_planes) = MaxPlacing
    /\ Cardinality(ActuatorAt(script, TRUE)) = MaxPlacing
    /\ PushPositions(script) # {}

----
\* C32: with "Place last N bullets again." and an accepted N, setup_fab_data
\* returns the ledger from position last_placed_index - N + 1 on, and that
\* work list starts with the last N placed units, in ledger order.
C32_LastNReplayed ==
    (pc \in { "confirm", "raised" } /\ answers.option = "some" /\ answers.method = "last n") =>
        LET N == answers.n
            start == last_placed_index(clay_bullets) - N + 1
            placed == SortedSeq(maybe_placed(clay_bullets))
        IN  /\ pc = "confirm"
            /\ to_place = [k \in 1..(Len(clay_bullets) - start) |-> start + k]
            /\ N <= Len(placed)
            /\ SubSeq(to_place, 1, N) = SubSeq(placed, Len(placed) - N + 1, Len(placed))
            /\ \A k \in (N + 1)..Len(to_place) : clay_bullets[to_place[k]].placed = None

----
\* C33: in clay_shooting the picking frame of unit i is the caller's picking
\* frame at index i, wrapped around the list, moved by z_calib_picking once,
\* and the placing frame of unit i is the caller's placing frame moved by
\* z_calib_placing once, also when units share a picking frame.
C33_CalibrationAppliedOnce ==
    /\ (call_pc = "place" /\ ~args.dry_run) =>
          LET ref == (unit % Len(args.picking_planes)) + 1
              used == TranslatedBy(args.picking_planes[ref], "z", args.z_calib_picking)
          IN  /\ instructions[unit + 1].picking_plane = ref
              /\ picking_planes[ref] = used
              /\ \E k \in 1..Len(script) : IsMoveL(script[k], used)
    /\ call_pc \in { "pick", "place", "finish", "returned" } =>
          \A u \in 1..unit :
              LET used == TranslatedBy(args.placing_planes[u], "z", args.z_calib_placing)
              IN  /\ placing_planes[u] = used
                  /\ \E k \in 1..Len(script) : IsMoveL(script[k], used)

----
\* C34: for every index >= 0 and every picking plate of at least 3
\* positions, pick_frame_from_grid returns 3 frames whose grid positions are
\* on the plate (0 <= xpos < xnum, 0 <= ypos < ynum) and pairwise distinct.
C34_FramesOnThePlate ==
    (Returned("pick_frame_from_grid") /\ args.xnum * args.ynum >= 3) =>
        /\ Len(result) = 3
        /\ \A k \in 1..3 :
             /\ 0 <= result[k].xpos /\ result[k].xpos < args.xnum
             /\ 0 <= result[k].ypos /\ result[k].ypos < args.ynum
        /\ \A j, k \in 1..3 :
             j # k => << result[j].xpos, result[j].ypos >> # << result[k].xpos, result[k].ypos >>

----
\* C35: in abb_run, whenever the promotion is taken (no bullet of the ledger
\* has placed null at the shutdown procedure), the in-progress file that is
\* renamed exists, also when the work list is empty or shorter than a chunk.
C35_PromotionFindsFile ==
    (runner = "abb_run" /\ pc = "shutdown" /\ AllPlaced(clay_bullets)) =>
        in_progress_json.state # "absent"

----
\* C36: during a run the units that are not in the work list keep their
\* placed and cycle_time, in memory and in every ledger on disk; every unit
\* of the work list has both fields set to null before the first command is
\* sent; the ledger keeps its units and their order.

\* Position in history of the first entry whose kind is in evs (0 when there
\* is none).
FirstOf(evs) ==
    LET found == { k \in DOMAIN history : history[k].ev \in evs }
    IN  IF found = {} THEN 0 ELSE CHOOSE k \in found : \A h \in found : k <= h

\* A step keeps the units of the ledger, their order, and both fields of the
\* units outside the work list.
KeepsOtherUnits ==
    /\ Len(clay_bullets') = Len(clay_bullets)
    /\ \A k \in 1..Len(clay_bullets) :
         /\ clay_bullets'[k].bullet_id = clay_bullets[k].bullet_id
         /\ k \notin Range(to_place) => clay_bullets'[k] = clay_bullets[k]

\* Every ledger on disk has the units of the ledger in memory, in order, and
\* for the units outside the work list the fields they have in memory.
PersistedKeepOtherUnits ==
    \A ledger \in PersistedLedgers :
        /\ Len(ledger) = Len(clay_bullets)
        /\ \A k \in 1..Len(ledger) :
             /\ ledger[k].bullet_id = clay_bullets[k].bullet_id
             /\ k \notin Range(to_place) => ledger[k] = ClayBulletEncoder(clay_bullets[k])

\* Both fields of every unit of the work list were set to null before the
\* first entry of history of a kind in evs.
ResetBefore(evs) ==
    FirstOf(evs) # 0 =>
        \A pos \in Range(to_place) :
            \A field \in { "placed", "cycle_time" } :
                \E k \in Assigns(field, pos) : k < FirstOf(evs) /\ history[k].val = None

\* C36 (as stated): the units outside the work list keep both fields in
\* memory and on disk, the ledger keeps its units and their order, and both
\* fields of every unit of the work list are null before the first command of
\* the run, the commands of pre_procedure included.
C36_ResetBeforeAnyCommand ==
    runner \in { "main", "abb_run" } =>
        (PersistedKeepOtherUnits /\ ResetBefore({ "procedure", "send" }))

\* C36 (amended): the units outside the work list keep both fields in memory
\* and in every persisted ledger, the ledger keeps its units and their order,
\* and both fields of every unit of the work list are reset to null after
\* pre_procedure and before the first pick or place command is sent.
C36_OnlyWorkListChanges ==
    /\ [](runner \in { "main", "abb_run" } =>
            /\ PersistedKeepOtherUnits
            /\ ResetBefore({ "send" })
            /\ \A pos \in Range(to_place) : \A field \in { "placed", "cycle_time" } :
                   \A k \in Assigns(field, pos) : FirstOf({ "procedure" }) < k)
    /\ [][ (runner \in { "main", "abb_run" }) => KeepsOtherUnits ]_vars

\* A run of main has ended with a unit left out of the work list, which still
\* has its old stamp in memory and in the done file, next to a unit that was
\* placed in this run.
C36_Witness ==
    /\ runner = "main" /\ pc = "done"
    /\ done_json.state = "bullets"
    /\ to_place # << >>
    /\ \E k \in 1..Len(clay_bullets) :
         /\ k \notin Range(to_place)
         /\ clay_bullets[k].placed = OldTime /\ clay_bullets[k].cycle_time = OldCycle
         /\ done_json.bullets[k].placed = OldTime
    /\ \E pos \in Range(to_place) : Stamps(pos) # {}

====
